---- MODULE Spec2Model ----
(***************************************************************************)
(* Model of the WhatsApp cooking assistant: the unit algebra and the       *)
(* inventory reconciliation of AIService (src/app/services/ai_service.py)  *)
(* and the per-user serialized webhook turn (src/main.py).                 *)
(*                                                                         *)
(* Texts (amounts, units, item names) are sequences of one-character       *)
(* strings, so that strip, split, lower, rstrip and the amount regular     *)
(* expression act on characters as the Python code does.  Numbers are      *)
(* exact rationals <<n, d>> with d > 0 in lowest terms; Python floats are  *)
(* modelled by their exact value (binary rounding error is not modelled).  *)
(***************************************************************************)
EXTENDS Integers, Sequences, FiniteSets, TLC

(***************************************************************************)
(* Characters and texts                                                    *)
(***************************************************************************)
DigitChars == <<"0", "1", "2", "3", "4", "5", "6", "7", "8", "9">>

UpperChars == <<"A", "B", "C", "D", "E", "F", "G", "H", "I", "J", "K", "L", "M",
                "N", "O", "P", "Q", "R", "S", "T", "U", "V", "W", "X", "Y", "Z">>

LowerChars == <<"a", "b", "c", "d", "e", "f", "g", "h", "i", "j", "k", "l", "m",
                "n", "o", "p", "q", "r", "s", "t", "u", "v", "w", "x", "y", "z">>

IsDigit(c) == \E i \in 1..10 : DigitChars[i] = c

DigitVal(c) == (CHOOSE i \in 1..10 : DigitChars[i] = c) - 1

IsUpper(c) == \E i \in 1..26 : UpperChars[i] = c

IsLetter(c) == IsUpper(c) \/ \E i \in 1..26 : LowerChars[i] = c

IsSpace(c) == c = " "

\* str.lower() on one character
LowerChar(c) == IF IsUpper(c) THEN LowerChars[CHOOSE i \in 1..26 : UpperChars[i] = c] ELSE c

\* str.lower()
Lower(s) == [i \in 1..Len(s) |-> LowerChar(s[i])]

RECURSIVE LStrip(_)
LStrip(s) == IF s # <<>> /\ IsSpace(Head(s)) THEN LStrip(Tail(s)) ELSE s

RECURSIVE RStrip(_)
RStrip(s) == IF s # <<>> /\ IsSpace(s[Len(s)]) THEN RStrip(SubSeq(s, 1, Len(s) - 1)) ELSE s

\* str.strip()
Strip(s) == RStrip(LStrip(s))

\* str.rstrip('s'): removes every trailing "s"
RECURSIVE RStripS(_)
RStripS(s) == IF s # <<>> /\ s[Len(s)] = "s" THEN RStripS(SubSeq(s, 1, Len(s) - 1)) ELSE s

\* the longest prefix of s without a space
RECURSIVE FirstWord(_)
FirstWord(s) == IF s = <<>> \/ IsSpace(Head(s)) THEN <<>> ELSE <<Head(s)>> \o FirstWord(Tail(s))

\* str.split(): the maximal runs of non-space characters, in order
RECURSIVE Split(_)
Split(s) ==
    IF LStrip(s) = <<>> THEN <<>>
    ELSE <<FirstWord(LStrip(s))>>
         \o Split(SubSeq(LStrip(s), Len(FirstWord(LStrip(s))) + 1, Len(LStrip(s))))

\* Python's "a in b" on texts
IsSubstr(a, b) ==
    \E i \in 0..(Len(b) - Len(a)) : SubSeq(b, i + 1, i + Len(a)) = a

\* F applied to the value of x, which is computed once
Let(x, F(_)) == CHOOSE r \in {F(v) : v \in {x}} : TRUE

(***************************************************************************)
(* Exact rationals                                                         *)
(***************************************************************************)
Abs(n) == IF n < 0 THEN 0 - n ELSE n

RECURSIVE Gcd(_, _)
Gcd(a, b) == IF b = 0 THEN a ELSE Gcd(b, a % b)

Rat(n, d) ==
    LET g == Gcd(Abs(n), Abs(d))
        s == IF d < 0 THEN 0 - 1 ELSE 1
    IN  IF n = 0 THEN <<0, 1>> ELSE <<(s * n) \div g, (s * d) \div g>>

RatAdd(x, y) == Rat(x[1] * y[2] + y[1] * x[2], x[2] * y[2])

RatSub(x, y) == Rat(x[1] * y[2] - y[1] * x[2], x[2] * y[2])

RatMulInt(x, k) == Rat(x[1] * k, x[2])

RatDivInt(x, k) == Rat(x[1], x[2] * k)

RatGt(x, y) == x[1] * y[2] > y[1] * x[2]

RatLt(x, y) == x[1] * y[2] < y[1] * x[2]

\* float.is_integer()
RatIsInteger(x) == x[2] = 1

Pow10(k) == IF k = 0 THEN 1 ELSE IF k = 1 THEN 10 ELSE IF k = 2 THEN 100 ELSE
            IF k = 3 THEN 1000 ELSE IF k = 4 THEN 10000 ELSE 100000

RECURSIVE DigitsVal(_)
DigitsVal(s) == IF s = <<>> THEN 0 ELSE DigitsVal(SubSeq(s, 1, Len(s) - 1)) * 10 + DigitVal(s[Len(s)])

AllDigits(s) == \A i \in 1..Len(s) : IsDigit(s[i])

AllLetters(s) == \A i \in 1..Len(s) : IsLetter(s[i])

(***************************************************************************)
(* Unit algebra: AIService._parse_amount_unit, _get_unit_conversions,      *)
(* _validate_unit, _convert_unit, _format_unit                             *)
(***************************************************************************)
\* the longest prefix of s made of digits
RECURSIVE DigitPrefix(_)
DigitPrefix(s) == IF s = <<>> \/ ~IsDigit(Head(s)) THEN <<>> ELSE <<Head(s)>> \o DigitPrefix(Tail(s))

NoValue == <<0, 0>>

\* Python float(text) for plain decimal numerals: surrounding spaces, an optional
\* sign, digits with at most one point and at least one digit.  Exponent forms,
\* "inf", "nan" and digit-group underscores are not in the modelled alphabet.
FloatOfParts(neg, ip, fp) ==
    LET mag == Rat(DigitsVal(ip) * Pow10(Len(fp)) + DigitsVal(fp), Pow10(Len(fp)))
    IN  IF AllDigits(ip) /\ AllDigits(fp) /\ Len(ip) + Len(fp) >= 1 /\ Len(fp) <= 5
        THEN [ok |-> TRUE, value |-> IF neg THEN Rat(0 - mag[1], mag[2]) ELSE mag]
        ELSE [ok |-> FALSE, value |-> NoValue]

FloatOfBody(neg, body) ==
    LET dots == {i \in 1..Len(body) : body[i] = "."}
    IN  IF Cardinality(dots) > 1 THEN [ok |-> FALSE, value |-> NoValue]
        ELSE Let(IF dots = {} THEN Len(body) + 1 ELSE CHOOSE i \in dots : TRUE,
                 LAMBDA p : Let(<<SubSeq(body, 1, p - 1), SubSeq(body, p + 1, Len(body))>>,
                                LAMBDA q : FloatOfParts(neg, q[1], q[2])))

PyFloat(s) ==
    Let(Strip(s),
        LAMBDA t : Let(IF t # <<>> /\ t[1] \in {"-", "+"} THEN Tail(t) ELSE t,
                       LAMBDA body : FloatOfBody(t # <<>> /\ t[1] = "-", body)))

\* re.match(r'^(\d+(?:\.\d+)?)([a-zA-Z]+)$', text) with the digits d1 that start t
AmountRegexFrom(t, d1) ==
    LET r1      == SubSeq(t, Len(d1) + 1, Len(t))
        frac    == IF r1 # <<>> /\ r1[1] = "." THEN DigitPrefix(Tail(r1)) ELSE <<>>
        hasFrac == frac # <<>>
        rest    == IF hasFrac THEN SubSeq(r1, Len(frac) + 2, Len(r1)) ELSE r1
        ok      == d1 # <<>> /\ rest # <<>> /\ AllLetters(rest)
        num     == IF hasFrac THEN d1 \o <<".">> \o frac ELSE d1
    IN  IF ok THEN [ok |-> TRUE, value |-> PyFloat(num).value, unit |-> rest]
        ELSE [ok |-> FALSE, value |-> NoValue, unit |-> <<>>]

AmountRegex(t) == Let(DigitPrefix(t), LAMBDA d1 : AmountRegexFrom(t, d1))

PieceUnit == <<"p", "i", "e", "c", "e">>

\* the third form: "parts = amount_str.split(); if len(parts) == 2"
AmountSplit(parts) ==
    IF Len(parts) # 2 THEN [ok |-> FALSE, value |-> NoValue, unit |-> <<>>]
    ELSE Let(PyFloat(parts[1]),
             LAMBDA f : IF f.ok THEN [ok |-> TRUE, value |-> f.value, unit |-> parts[2]]
                        ELSE [ok |-> FALSE, value |-> NoValue, unit |-> <<>>])

ParseStripped(t) ==
    Let(PyFloat(t),
        LAMBDA f : IF f.ok THEN [ok |-> TRUE, value |-> f.value, unit |-> PieceUnit]
                   ELSE Let(AmountRegex(t),
                            LAMBDA m : IF m.ok THEN m
                                       ELSE Let(Split(t), LAMBDA parts : AmountSplit(parts))))

\* ok = FALSE stands for the ValueError("Invalid amount format")
_parse_amount_unit(amount_str) == Let(Strip(amount_str), LAMBDA t : ParseStripped(t))

\* the conversion table, in the order of the dict literal
_get_unit_conversions ==
    << [unit |-> <<"g">>, factor |-> 1],
       [unit |-> <<"g", "r", "a", "m">>, factor |-> 1],
       [unit |-> <<"g", "r", "a", "m", "s">>, factor |-> 1],
       [unit |-> <<"k", "g">>, factor |-> 1000],
       [unit |-> <<"k", "i", "l", "o">>, factor |-> 1000],
       [unit |-> <<"k", "i", "l", "o", "s">>, factor |-> 1000],
       [unit |-> <<"k", "i", "l", "o", "g", "r", "a", "m">>, factor |-> 1000],
       [unit |-> <<"k", "i", "l", "o", "g", "r", "a", "m", "s">>, factor |-> 1000],
       [unit |-> <<"m", "l">>, factor |-> 1],
       [unit |-> <<"m", "i", "l", "l", "i", "l", "i", "t", "e", "r">>, factor |-> 1],
       [unit |-> <<"m", "i", "l", "l", "i", "l", "i", "t", "e", "r", "s">>, factor |-> 1],
       [unit |-> <<"l">>, factor |-> 1000],
       [unit |-> <<"l", "i", "t", "e", "r">>, factor |-> 1000],
       [unit |-> <<"l", "i", "t", "e", "r", "s">>, factor |-> 1000],
       [unit |-> <<"p", "i", "e", "c", "e">>, factor |-> 1],
       [unit |-> <<"p", "i", "e", "c", "e", "s">>, factor |-> 1],
       [unit |-> <<"p", "c", "s">>, factor |-> 1],
       [unit |-> <<"p", "c">>, factor |-> 1],
       [unit |-> <<"w", "h", "o", "l", "e">>, factor |-> 1],
       [unit |-> <<"w", "h", "o", "l", "e", "s">>, factor |-> 1] >>

InUnitTable(u) == \E i \in 1..Len(_get_unit_conversions) : _get_unit_conversions[i].unit = u

UnitFactor(u) ==
    _get_unit_conversions[CHOOSE i \in 1..Len(_get_unit_conversions) :
                              _get_unit_conversions[i].unit = u].factor

\* the aliases that contain the text or are contained in it, in table order
SimilarUnits(u) ==
    SelectSeq(_get_unit_conversions,
              LAMBDA e : IsSubstr(u, e.unit) \/ IsSubstr(e.unit, u))

ValidateNormalized(u) ==
    IF InUnitTable(u) THEN [ok |-> TRUE, unit |-> u, similar |-> <<>>]
    ELSE Let(SimilarUnits(u),
             LAMBDA sim : [ok |-> FALSE, unit |-> <<>>,
                           similar |-> [i \in 1..Len(sim) |-> sim[i].unit]])

\* (is_valid, normalized unit); similar is the suggestion list of the message
_validate_unit(unit) == Let(RStripS(Lower(unit)), LAMBDA u : ValidateNormalized(u))

WeightUnits == { <<"g">>, <<"g", "r", "a", "m">>, <<"k", "g">>, <<"k", "i", "l", "o">>,
                 <<"k", "i", "l", "o", "g", "r", "a", "m">> }

VolumeUnits == { <<"m", "l">>, <<"m", "i", "l", "l", "i", "l", "i", "t", "e", "r">>,
                 <<"l">>, <<"l", "i", "t", "e", "r">> }

UnitType(u) == IF u \in WeightUnits THEN "weight"
               ELSE IF u \in VolumeUnits THEN "volume" ELSE "count"

\* mutant: the two factors exchanged
ConvertNormalized_swapped(value, f, t) ==
    IF ~InUnitTable(f) \/ ~InUnitTable(t) THEN [ok |-> FALSE, value |-> NoValue]
    ELSE IF UnitType(f) # UnitType(t) THEN [ok |-> FALSE, value |-> NoValue]
    ELSE [ok |-> TRUE, value |-> RatDivInt(RatMulInt(value, UnitFactor(t)), UnitFactor(f))]

\* lines 480-498 on the two normalized units
ConvertNormalized(value, f, t) ==
    IF ~InUnitTable(f) \/ ~InUnitTable(t) THEN [ok |-> FALSE, value |-> NoValue]
    ELSE IF UnitType(f) # UnitType(t) THEN [ok |-> FALSE, value |-> NoValue]
    ELSE [ok |-> TRUE, value |-> RatDivInt(RatMulInt(value, UnitFactor(f)), UnitFactor(t))]

\* ok = FALSE stands for the None result
_convert_unit(value, from_unit, to_unit) ==
    Let(<<value, RStripS(Lower(from_unit)), RStripS(Lower(to_unit))>>,
        LAMBDA a : ConvertNormalized(a[1], a[2], a[3]))

\* str(int)
RECURSIVE NatText(_)
NatText(n) == IF n < 10 THEN <<DigitChars[n + 1]>>
              ELSE NatText(n \div 10) \o <<DigitChars[(n % 10) + 1]>>

\* round(value, 2) in hundredths, ties to even
RoundHundredths(mag) ==
    LET q == (mag[1] * 100) \div mag[2]
        r == (mag[1] * 100) % mag[2]
    IN  IF 2 * r > mag[2] THEN q + 1
        ELSE IF 2 * r < mag[2] THEN q
        ELSE IF q % 2 = 0 THEN q ELSE q + 1

\* repr of the float h / 100
HundredthsText(h) ==
    LET ip == NatText(h \div 100)
        f  == h % 100
    IN  IF f % 10 = 0 THEN ip \o <<".">> \o NatText(f \div 10)
        ELSE ip \o <<".">> \o <<DigitChars[(f \div 10) + 1], DigitChars[(f % 10) + 1]>>

\* mutant: f"{value}{unit}", the separating space dropped
FormatValue_nospace(value, unit) ==
    LET neg == value[1] < 0
        mag == <<Abs(value[1]), value[2]>>
        num == IF RatIsInteger(value) THEN NatText(mag[1])
               ELSE HundredthsText(RoundHundredths(mag))
    IN  (IF neg THEN <<"-">> ELSE <<>>) \o num \o unit

\* lines 503-516 on the evaluated arguments
FormatValue(value, unit) ==
    LET neg == value[1] < 0
        mag == <<Abs(value[1]), value[2]>>
        num == IF RatIsInteger(value) THEN NatText(mag[1])
               ELSE HundredthsText(RoundHundredths(mag))
    IN  (IF neg THEN <<"-">> ELSE <<>>) \o num \o <<" ">> \o unit

_format_unit(value, unit) == Let(<<value, unit>>, LAMBDA a : FormatValue(a[1], a[2]))

(***************************************************************************)
(* Item normalizer: AIService.normalize_item_name                          *)
(***************************************************************************)
Tomatoes == <<"T", "o", "m", "a", "t", "o", "e", "s">>

Tomato == <<"t", "o", "m", "a", "t", "o">>

Onion == <<"o", "n", "i", "o", "n">>

\* the answer of the external normalization capability (singular, standard name)
ChatNormalize(item_name) == IF Lower(item_name) = Lower(Tomatoes) THEN Tomato ELSE item_name

\* failed = TRUE: the capability raised and the lowercase fallback is returned
normalize_item_name(item_name, failed) ==
    IF failed THEN Lower(item_name) ELSE Lower(Strip(ChatNormalize(item_name)))

(***************************************************************************)
(* The dict current_items (normalized name -> item), in insertion order    *)
(***************************************************************************)
HasKey(d, k) == \E i \in 1..Len(d) : d[i].key = k

KeyIndex(d, k) == CHOOSE i \in 1..Len(d) : d[i].key = k

DictGet(d, k) == d[KeyIndex(d, k)]

\* d[k] = item: a present key keeps its position
DictSet(d, k, name, amount) ==
    LET e == [key |-> k, name |-> name, amount |-> amount]
    IN  IF HasKey(d, k) THEN [d EXCEPT ![KeyIndex(d, k)] = e] ELSE Append(d, e)

\* del d[k]
DictDel(d, k) == SelectSeq(d, LAMBDA e : e.key # k)

\* list(d.values())
DictValues(d) == [i \in 1..Len(d) |-> [name |-> d[i].name, amount |-> d[i].amount]]

\* the loop "for item in current_inventory: current_items[normalize(name)] = item";
\* failed[i] tells whether the normalizer failed on the i-th stored item
RECURSIVE BuildItems(_, _, _)
BuildItems(inventory, failed, n) ==
    IF n = 0 THEN <<>>
    ELSE DictSet(BuildItems(inventory, failed, n - 1),
                 normalize_item_name(inventory[n].name, failed[n]),
                 inventory[n].name, inventory[n].amount)

build_current_items(inventory, failed) == BuildItems(inventory, failed, Len(inventory))

(***************************************************************************)
(* One iteration of the loops of process_classified_message.  st is the    *)
(* loop state [current_items, outcomes, has_errors]; outcomes is           *)
(* removed_items or updated_items.  An outcome has the keys of the dict    *)
(* the code appends; an absent key is the empty text.                      *)
(***************************************************************************)
NoText == <<>>

AllText == <<"a", "l", "l">>

Outcome(name, amount, error, added) ==
    [name |-> name, amount |-> amount, error |-> error, added |-> added]

ErrNotFound == "Item not found in inventory"

ErrConvert == "Cannot convert between units"

ErrExceeds == "Requested amount exceeds available amount"

ErrFormat == "Invalid amount format"

ErrUnit == "Unsupported unit or suggestion"

ErrCurrentUnit == "Current amount has unsupported unit"

\* mutant: ">=" written for ">"
partial_removal_ge(current_value, remove_value) == ~RatLt(current_value, remove_value)

\* mutant: the comparison dropped, the subtraction always made
partial_removal_always(current_value, remove_value) == TRUE

\* "if current_value > remove_value": subtract and keep the remainder
partial_removal(current_value, remove_value) == RatGt(current_value, remove_value)

\* "elif current_value == remove_value": remove the entire item
entire_removal(current_value, remove_value) == current_value = remove_value

\* mutant: an item that is not in the inventory is skipped without a record
not_found_dropped(outcomes, item) == outcomes

\* the else branch of "if normalized_name in current_items"
not_found(outcomes, item) == Append(outcomes, Outcome(item.name, NoText, ErrNotFound, NoText))

AddOutcome(st, o) == [st EXCEPT !.outcomes = Append(@, o)]

\* lines 646-664: both amounts parsed, remove_value is in the stored unit
remove_amount(st, cur, normalized_name, current_value, current_unit, remove_value) ==
    IF partial_removal(current_value, remove_value)
    THEN [AddOutcome(st, Outcome(cur.name, _format_unit(remove_value, current_unit), "", NoText))
            EXCEPT !.current_items =
                DictSet(@, normalized_name, cur.name,
                        _format_unit(RatSub(current_value, remove_value), current_unit))]
    ELSE IF entire_removal(current_value, remove_value)
    THEN [AddOutcome(st, Outcome(cur.name, cur.amount, "", NoText))
            EXCEPT !.current_items = DictDel(@, normalized_name)]
    ELSE AddOutcome(st, Outcome(cur.name, cur.amount, ErrExceeds, NoText))

\* mutant: a failed conversion is handled as a failed parse, the entry deleted
remove_parsed_deleting(st, cur, normalized_name, pcur, prem) ==
    IF ~pcur.ok \/ ~prem.ok
    THEN [AddOutcome(st, Outcome(cur.name, cur.amount, ErrFormat, NoText))
            EXCEPT !.current_items = DictDel(@, normalized_name)]
    ELSE Let(IF pcur.unit # prem.unit
             THEN _convert_unit(prem.value, prem.unit, pcur.unit)
             ELSE [ok |-> TRUE, value |-> prem.value],
             LAMBDA conv :
                 IF ~conv.ok
                 THEN [AddOutcome(st, Outcome(cur.name, cur.amount, ErrConvert, NoText))
                         EXCEPT !.current_items = DictDel(@, normalized_name)]
                 ELSE remove_amount(st, cur, normalized_name, pcur.value, pcur.unit, conv.value))

\* lines 627-644 and 665-673: pcur and prem are the two parse results
remove_parsed(st, cur, normalized_name, pcur, prem) ==
    IF ~pcur.ok \/ ~prem.ok
    THEN [AddOutcome(st, Outcome(cur.name, cur.amount, ErrFormat, NoText))
            EXCEPT !.current_items = DictDel(@, normalized_name)]
    ELSE Let(IF pcur.unit # prem.unit
             THEN _convert_unit(prem.value, prem.unit, pcur.unit)
             ELSE [ok |-> TRUE, value |-> prem.value],
             LAMBDA conv :
                 IF ~conv.ok
                 THEN AddOutcome(st, Outcome(cur.name, cur.amount, ErrConvert, NoText))
                 ELSE remove_amount(st, cur, normalized_name, pcur.value, pcur.unit, conv.value))

\* lines 616-673: the item is in current_items as cur
remove_found(st, cur, item, normalized_name) ==
    IF Lower(item.amount) = AllText
    THEN [AddOutcome(st, Outcome(cur.name, cur.amount, "", NoText))
            EXCEPT !.current_items = DictDel(@, normalized_name)]
    ELSE Let(<<_parse_amount_unit(cur.amount), _parse_amount_unit(item.amount)>>,
             LAMBDA pp : remove_parsed(st, cur, normalized_name, pp[1], pp[2]))

\* remove_inventory: the body of "for item in items_to_remove"
remove_item(st, item, normalized_name) ==
    IF ~HasKey(st.current_items, normalized_name)
    THEN [st EXCEPT !.outcomes = not_found(st.outcomes, item)]
    ELSE Let(DictGet(st.current_items, normalized_name),
             LAMBDA cur : remove_found(st, cur, item, normalized_name))

FailItem(st, name, amount, error) ==
    [AddOutcome(st, Outcome(name, amount, error, NoText)) EXCEPT !.has_errors = TRUE]

\* lines 888-909: the key exists, both amounts parsed, both units valid
update_existing(st, new_item, normalized_name, cur, pcur, pnew) ==
    Let(IF pcur.unit # pnew.unit
        THEN _convert_unit(pnew.value, pnew.unit, pcur.unit)
        ELSE [ok |-> TRUE, value |-> pnew.value],
        LAMBDA conv :
            IF ~conv.ok THEN FailItem(st, new_item.name, new_item.amount, ErrConvert)
            ELSE Let(_format_unit(RatAdd(pcur.value, conv.value), pcur.unit),
                     LAMBDA total :
                         [AddOutcome(st, Outcome(new_item.name, total, "",
                                                 _format_unit(conv.value, pcur.unit)))
                            EXCEPT !.current_items =
                                DictSet(@, normalized_name, cur.name, total)]))

\* lines 873-886: the key exists as cur; pcur is the parse of the stored amount
update_found(st, new_item, normalized_name, cur, pcur, pnew) ==
    IF ~pcur.ok THEN FailItem(st, new_item.name, new_item.amount, ErrFormat)
    ELSE IF ~_validate_unit(pcur.unit).ok
    THEN FailItem(st, new_item.name, cur.amount, ErrCurrentUnit)
    ELSE update_existing(st, new_item, normalized_name, cur, pcur, pnew)

\* lines 910-920: a new key
update_new(st, new_item, normalized_name, text) ==
    [AddOutcome(st, Outcome(new_item.name, text, "", text))
       EXCEPT !.current_items = DictSet(@, normalized_name, new_item.name, text)]

\* lines 859-920: pnew is the parse of the new amount
update_parsed(st, new_item, normalized_name, pnew) ==
    IF ~pnew.ok THEN FailItem(st, new_item.name, new_item.amount, ErrFormat)
    ELSE IF ~_validate_unit(pnew.unit).ok
    THEN FailItem(st, new_item.name, new_item.amount, ErrUnit)
    ELSE IF HasKey(st.current_items, normalized_name)
    THEN Let(DictGet(st.current_items, normalized_name),
             LAMBDA cur : Let(_parse_amount_unit(cur.amount),
                              LAMBDA pcur : update_found(st, new_item, normalized_name,
                                                         cur, pcur, pnew)))
    ELSE Let(_format_unit(pnew.value, pnew.unit),
             LAMBDA text : update_new(st, new_item, normalized_name, text))

\* update_inventory: the body of "for new_item in new_items"
update_item(st, new_item, normalized_name) ==
    Let(_parse_amount_unit(new_item.amount),
        LAMBDA pnew : update_parsed(st, new_item, normalized_name, pnew))

\* the whole loop over classification["items"]: the first n items, failed[i]
\* telling whether the normalizer failed on the i-th item
RECURSIVE LoopItems(_, _, _, _, _)
LoopItems(action, st, items, failed, n) ==
    IF n = 0 THEN st
    ELSE Let(LoopItems(action, st, items, failed, n - 1),
             LAMBDA prev :
                 IF action = "remove_inventory"
                 THEN remove_item(prev, items[n], normalize_item_name(items[n].name, failed[n]))
                 ELSE update_item(prev, items[n], normalize_item_name(items[n].name, failed[n])))

\* the loop state when the loop of the branch is left
reconcile(action, inventory, items, failed_stored, failed_items) ==
    LoopItems(action,
              [current_items |-> build_current_items(inventory, failed_stored),
               outcomes |-> <<>>, has_errors |-> FALSE],
              items, failed_items, Len(items))

\* mutant: the write is issued whatever has_errors is
update_writes_always(has_errors) == TRUE

\* update_inventory: "if not has_errors:" guards the inventory write
update_writes(has_errors) == ~has_errors

\* mutant: the all-or-nothing rule of update_inventory applied to remove_inventory
remove_writes_if_clean(outcomes) == \A i \in 1..Len(outcomes) : outcomes[i].error = ""

\* remove_inventory: the inventory write follows the loop unconditionally
remove_writes(outcomes) == TRUE

(***************************************************************************)
(* Reconciliation turns of one user: process_classified_message for        *)
(* update_inventory and remove_inventory, one loop iteration per step.     *)
(***************************************************************************)
VARIABLES ingredients, turn, user_message_locks, locks, pc, msgs, users

recVars == <<ingredients, turn>>
webVars == <<user_message_locks, locks, pc, msgs, users>>
vars == <<ingredients, turn, user_message_locks, locks, pc, msgs, users>>

\* bound: the longest classified item list
MaxItems == 2

Text_2kg == <<"2", " ", "k", "g">>

Text_3piece == <<"3", " ", "p", "i", "e", "c", "e">>

Text_1cup == <<"1", " ", "c", "u", "p">>

Text_500g == <<"5", "0", "0", "g">>

Text_2000g == <<"2", "0", "0", "0", "g">>

Text_5kg == <<"5", " ", "k", "g">>

Text_3 == <<"3">>

Text_lots == <<"l", "o", "t", "s">>

Text_1l == <<"1", " ", "l">>

Text_2ltr == <<"2", " ", "l", "t", "r">>

Ingredient(name, amount) == [name |-> name, amount |-> amount]

\* stored inventories a turn may start from; the third holds an entry with a
\* unit outside the conversion table (legacy data)
StoredInventories ==
    { <<>>,
      <<Ingredient(Tomato, Text_2kg), Ingredient(Onion, Text_3piece)>>,
      <<Ingredient(Tomatoes, Text_1cup)>> }

ItemNames == {Tomatoes, Onion}

RemoveAmounts == {Text_500g, Text_2000g, Text_5kg, Text_3, AllText, Text_lots}

UpdateAmounts == {Text_500g, Text_3, Text_1l, Text_2ltr, Text_lots}

ItemsOf(action) ==
    [name : ItemNames,
     amount : IF action = "remove_inventory" THEN RemoveAmounts ELSE UpdateAmounts]

NoEntry == [key |-> NoText, name |-> NoText, amount |-> NoText]

EntryOf(d, k) == IF HasKey(d, k) THEN DictGet(d, k) ELSE NoEntry

IdleTurn ==
    [pc |-> "idle", action |-> "none", remove_all |-> FALSE, items |-> <<>>,
     keys |-> <<>>, built |-> <<>>, before |-> <<>>, after |-> <<>>,
     loop |-> [current_items |-> <<>>, outcomes |-> <<>>, has_errors |-> FALSE],
     pre |-> <<>>, wrote |-> FALSE, response |-> "none"]

RecInit ==
    /\ ingredients \in StoredInventories
    /\ turn = IdleTurn

\* entry of the branch: current_items is built from the stored inventory
BeginTurn(action, remove_all, failed) ==
    /\ turn.pc = "idle"
    /\ turn' = [IdleTurn EXCEPT
                  !.pc = "loop", !.action = action, !.remove_all = remove_all,
                  !.pre = ingredients,
                  !.built = build_current_items(ingredients, failed),
                  !.loop = [current_items |-> build_current_items(ingredients, failed),
                            outcomes |-> <<>>, has_errors |-> FALSE]]
    /\ UNCHANGED <<ingredients, webVars>>

BeginRemove ==
    \E remove_all \in BOOLEAN, failed \in [1..Len(ingredients) -> BOOLEAN] :
        BeginTurn("remove_inventory", remove_all, failed)

BeginUpdate ==
    \E failed \in [1..Len(ingredients) -> BOOLEAN] :
        BeginTurn("update_inventory", FALSE, failed)

\* one iteration over the next item of classification["items"]
LoopItem(item, failed) ==
    /\ turn.pc = "loop"
    /\ Len(turn.items) < MaxItems
    /\ \E k \in {normalize_item_name(item.name, failed)} :
         \E st \in {IF turn.action = "remove_inventory"
                    THEN remove_item(turn.loop, item, k)
                    ELSE update_item(turn.loop, item, k)} :
            turn' = [turn EXCEPT
                       !.items = Append(@, item),
                       !.keys = Append(@, k),
                       !.before = Append(@, EntryOf(turn.loop.current_items, k)),
                       !.after = Append(@, EntryOf(st.current_items, k)),
                       !.loop = st]
    /\ UNCHANGED <<ingredients, webVars>>

RemoveItem ==
    /\ turn.action = "remove_inventory"
    /\ \E item \in ItemsOf("remove_inventory"), failed \in BOOLEAN : LoopItem(item, failed)

UpdateItem ==
    /\ turn.action = "update_inventory"
    /\ \E item \in ItemsOf("update_inventory"), failed \in BOOLEAN : LoopItem(item, failed)

\* after the loop: the inventory write (when issued) and the response; a failing
\* update_one raises into "except Exception", which answers with the apology
EndTurn(store_ok) ==
    LET writes == IF turn.action = "remove_inventory"
                  THEN remove_writes(turn.loop.outcomes)
                  ELSE update_writes(turn.loop.has_errors)
    IN  /\ turn.pc = "loop"
        /\ ingredients' = IF writes /\ store_ok THEN DictValues(turn.loop.current_items)
                          ELSE ingredients
        /\ turn' = [turn EXCEPT
                      !.pc = "done",
                      !.wrote = writes /\ store_ok,
                      !.response = IF writes /\ ~store_ok THEN "apology" ELSE "report"]
        /\ UNCHANGED webVars

FinishTurn == \E store_ok \in BOOLEAN : EndTurn(store_ok)

RecNext == BeginRemove \/ BeginUpdate \/ RemoveItem \/ UpdateItem \/ FinishTurn



(***************************************************************************)
(* Properties of a reconciliation turn (checked under SpecRec)             *)
(***************************************************************************)
Done == turn.pc = "done"

IsUpdate == turn.action = "update_inventory"

IsRemove == turn.action = "remove_inventory"

Reported == turn.response = "report"

Outcomes == turn.loop.outcomes

ItemIndexes == 1..Len(turn.items)

Failed(i) == Outcomes[i].error # ""

Succeeded(i) == Outcomes[i].error = ""

\* the stored inventory holds the entry e (by name and amount)
Persisted(e) == \E j \in 1..Len(ingredients) : ingredients[j] = Ingredient(e.name, e.amount)

\* no other item of the batch names the key of item i
OnlyItemOfKey(i) == \A j \in ItemIndexes : j # i => turn.keys[j] # turn.keys[i]

\* the stored and the requested quantity of item i, the latter in the stored unit
Quantities(i) ==
    Let(<<_parse_amount_unit(turn.before[i].amount), _parse_amount_unit(turn.items[i].amount)>>,
        LAMBDA pp :
            IF turn.before[i] = NoEntry \/ Lower(turn.items[i].amount) = AllText
               \/ ~pp[1].ok \/ ~pp[2].ok
            THEN [ok |-> FALSE, stored |-> NoValue, requested |-> NoValue, converted |-> FALSE]
            ELSE IF pp[1].unit = pp[2].unit
            THEN [ok |-> TRUE, stored |-> pp[1].value, requested |-> pp[2].value,
                  converted |-> FALSE]
            ELSE Let(_convert_unit(pp[2].value, pp[2].unit, pp[1].unit),
                     LAMBDA c : [ok |-> c.ok, stored |-> pp[1].value, requested |-> c.value,
                                 converted |-> TRUE]))

\* C5: in an update_inventory turn in which at least one item fails, no inventory
\* write is committed: the stored inventory after the turn is the one before it,
\* also for the items of the batch that succeeded, and the outcome report lists
\* every item
C5_AddBatchAllOrNothing ==
    (Done /\ IsUpdate /\ \E i \in ItemIndexes : Failed(i))
        => /\ ~turn.wrote
           /\ ingredients = turn.pre
           /\ Reported
           /\ Len(Outcomes) = Len(turn.items)

\* an update batch with a failed item and a succeeded item whose change was made
\* in current_items
C5_Witness ==
    /\ Done /\ IsUpdate
    /\ \E i \in ItemIndexes : Failed(i)
    /\ \E i \in ItemIndexes : Succeeded(i)
    /\ DictValues(turn.loop.current_items) # turn.pre

\* C6: in a remove_inventory turn the failure of one item does not block the
\* others: the turn writes the inventory, and the change of every item that
\* succeeded (the entry removed, or its amount reduced) is in the stored inventory
\* after the turn, also when other items of the batch report an error
C6_RemoveCommitsPerItem ==
    (Done /\ IsRemove /\ Reported)
        => /\ turn.wrote
           /\ ingredients = DictValues(turn.loop.current_items)
           /\ \A i \in ItemIndexes :
                (Succeeded(i) /\ OnlyItemOfKey(i))
                    => /\ turn.after[i] # turn.before[i]
                       /\ ~Persisted(turn.before[i])
                       /\ turn.after[i] # NoEntry => Persisted(turn.after[i])

\* a remove batch in which one item failed and another one changed the inventory
C6_Witness ==
    /\ Done /\ IsRemove /\ Reported
    /\ \E i \in ItemIndexes : Failed(i)
    /\ \E i \in ItemIndexes : Succeeded(i) /\ OnlyItemOfKey(i)
    /\ ingredients # turn.pre

\* C7: a remove_inventory turn whose classification has remove_all = TRUE clears
\* the whole inventory and reports a single summary outcome
C7_RemoveAllClears ==
    (Done /\ IsRemove /\ turn.remove_all /\ Reported)
        => (ingredients = <<>> /\ Len(Outcomes) <= 1)

\* C8: a remove request whose amount, converted into the stored unit, equals the
\* stored amount removes the entry: the inventory after the turn has no record
\* under that normalized key
C8_RemoveEqualDeletes ==
    (Done /\ IsRemove /\ Reported)
        => \A i \in ItemIndexes :
              (Quantities(i).ok /\ Quantities(i).requested = Quantities(i).stored)
                  => /\ Succeeded(i)
                     /\ ~HasKey(turn.loop.current_items, turn.keys[i])
                     /\ ~Persisted(turn.before[i])

\* the equal amount was given in another unit than the stored one
C8_Witness ==
    /\ Done /\ IsRemove /\ Reported
    /\ \E i \in ItemIndexes :
          /\ Quantities(i).ok /\ Quantities(i).converted
          /\ Quantities(i).requested = Quantities(i).stored

\* every amount of the dict d that parses is not negative
NoNegativeAmount(d) ==
    \A j \in 1..Len(d) :
        Let(_parse_amount_unit(d[j].amount), LAMBDA q : q.ok => q.value[1] >= 0)

\* C9: a remove request whose amount, converted into the stored unit, exceeds the
\* stored amount leaves the entry unchanged and reports the over-removal error for
\* the item; no remove step leaves a negative amount
C9_OverRemovalLeavesStock ==
    IsRemove
        => /\ \A i \in ItemIndexes :
                 (Quantities(i).ok /\ RatGt(Quantities(i).requested, Quantities(i).stored))
                     => /\ turn.after[i] = turn.before[i]
                        /\ Outcomes[i].error = ErrExceeds
           /\ NoNegativeAmount(turn.loop.current_items)
           /\ NoNegativeAmount(ingredients)

\* an over-removal happened in a finished turn whose write was committed
C9_Witness ==
    /\ Done /\ IsRemove /\ turn.wrote
    /\ \E i \in ItemIndexes :
          Quantities(i).ok /\ RatGt(Quantities(i).requested, Quantities(i).stored)

\* C10: every item of the classified item list has exactly one outcome record, in
\* the order of the input: the i-th record is about the i-th item (it carries the
\* item's name, or the name of the stored entry the item matched)
C10_OneOutcomePerItem ==
    /\ Len(Outcomes) = Len(turn.items)
    /\ \A i \in ItemIndexes :
          /\ Outcomes[i].name \in {turn.items[i].name, turn.before[i].name}
          /\ turn.before[i] = NoEntry => Outcomes[i].name = turn.items[i].name

\* a finished batch of two items with different names, one failed (not found) and
\* one succeeded
C10_Witness ==
    /\ Done /\ Len(turn.items) = 2
    /\ turn.items[1].name # turn.items[2].name
    /\ \E i \in ItemIndexes : Outcomes[i].error = ErrNotFound
    /\ \E i \in ItemIndexes : Succeeded(i)


(***************************************************************************)
(* The webhook: whatsapp_webhook (src/main.py), one process per inbound    *)
(* call.  A step runs the handler from one awaited external call (store,   *)
(* language model, Twilio) to the next; code between two awaits runs       *)
(* without interleaving, as on a single asyncio event loop.                *)
(***************************************************************************)

\* bound: the number of inbound webhook calls
MaxMsgs == 2

Sids == 1..MaxMsgs

Max(a, b) == IF a >= b THEN a ELSE b

\* two senders; their numbers end in different digits, so that their user_ids
\* differ whatever the second at which the users are created
Phone_A == <<"+", "5", "5", "5", "1", "2", "3", "4">>

Phone_B == <<"+", "5", "5", "5", "5", "6", "7", "8">>

Phones == {Phone_A, Phone_B}

Whatsapp == "whatsapp:"

MessageTypes == {"text", "image", "audio"}

\* the forms Twilio may post for message sid
FormData(sid) ==
    [MessageSid : {sid}, MessageType : MessageTypes,
     From : {<<Whatsapp>> \o p : p \in Phones}]

\* str.replace(old, "") on a text whose channel prefix is one token
Replace(s, old) == SelectSeq(s, LAMBDA c : c # old)

parse_incoming_message(message_data) ==
    [type |-> message_data.MessageType,
     from_number |-> Replace(message_data.From, Whatsapp),
     message_sid |-> message_data.MessageSid]

\* ---- the users collection: documents in insertion order ----
NoUser ==
    [user_id |-> <<>>, phone_number |-> NoText, ingredients |-> <<>>,
     conversation_history |-> <<>>]

\* phone_number[-4:]
Last4(phone_number) ==
    SubSeq(phone_number, Max(1, Len(phone_number) - 3), Len(phone_number))

\* f"USER_{timestamp}_{phone_number[-4:]}", timestamp to the second
make_user_id(timestamp, phone_number) == <<timestamp, Last4(phone_number)>>

NewUser(timestamp, phone_number) ==
    [user_id |-> make_user_id(timestamp, phone_number), phone_number |-> phone_number,
     ingredients |-> <<>>, conversation_history |-> <<>>]

Matching(docs, field, value) == {i \in 1..Len(docs) : docs[i][field] = value}

First(S) == CHOOSE i \in S : \A j \in S : i <= j

\* find_one: the first matching document, or None
find_one(docs, field, value) ==
    IF Matching(docs, field, value) = {} THEN NoUser
    ELSE docs[First(Matching(docs, field, value))]

\* update_one with $set: the first document matching user_id, if any
update_one(docs, uid, field, value) ==
    IF Matching(docs, "user_id", uid) = {} THEN docs
    ELSE [docs EXCEPT ![First(Matching(docs, "user_id", uid))][field] = value]

\* datetime.utcnow().strftime("%Y%m%d%H%M%S") when a user is created
Timestamp == "20240101120000"

\* ---- classifications the language model may return for a message ----
Classification(action, items) ==
    [action |-> action, items |-> items, remove_all |-> FALSE]

NoClassification == Classification("none", <<>>)

Classifications ==
    <<Classification("general_conversation", <<>>),
      Classification("get_recipes", <<>>),
      Classification("get_inventory", <<>>),
      Classification("update_inventory", <<Ingredient(Onion, Text_3)>>),
      Classification("remove_inventory", <<Ingredient(Onion, Text_3)>>)>>

NoResult == [response |-> "none", conversation_history |-> <<>>, calls |-> 0]

\* conversation_history.append of the user message and of the assistant answer
Exchange(history, sid) ==
    history \o <<[role |-> "user", sid |-> sid], [role |-> "assistant", sid |-> sid]>>

\* ---- the handler's processes ----
\* pc[m] is the position of call m of whatsapp_webhook; msgs[m] holds the locals
\* of the call and what the call has done so far
NewMsg(sid) ==
    [message_sid |-> sid, from_number |-> NoText, lock |-> 0,
     user |-> NoUser, result |-> NoResult, status |-> "none", turn_seen |-> FALSE,
     replies |-> 0, send_failed |-> FALSE, released |-> 0, touched_store |-> FALSE,
     wrote |-> FALSE]

\* positions inside "async with user_message_locks[phone_number]"
TurnPcs == {"locked", "classify", "analyze", "history", "send"}

InTurn(m) == pc[m] \in TurnPcs

\* another message of the same sender is inside the locked section
OtherInTurn(m) ==
    \E o \in Sids \ {m} : InTurn(o) /\ msgs[o].from_number = msgs[m].from_number

Init ==
    /\ ingredients = <<>>
    /\ turn = IdleTurn
    /\ user_message_locks = <<>>
    /\ locks = <<>>
    /\ pc = [m \in Sids |-> "new"]
    /\ msgs = [m \in Sids |-> NewMsg(m)]
    /\ users = <<>>

\* mutant: the lock table is keyed by the message and not by its sender alone
lock_key_sid(parsed_message) ==
    Append(parsed_message.from_number, parsed_message.message_sid)

\* the key of the lock table: phone_number = parsed_message["from_number"]
lock_key(parsed_message) == parsed_message.from_number

\* mutant: the busy check is dropped
is_busy_never(table, ls, key) == FALSE

\* phone_number in user_message_locks and user_message_locks[phone_number].locked()
is_busy(table, ls, key) == key \in DOMAIN table /\ ls[table[key]]

\* mutant: the lock is released on the successful exit only
exit_releases_on_success(status) == status = "success"

\* "async with" releases the lock however its body is left
exit_releases(status) == TRUE

\* await request.form() returns; the sender is parsed out of the form (the
\* other fields of the form are drawn where the handler first reads them)
Arrive(m) ==
    /\ pc[m] = "new"
    /\ \A o \in Sids : o < m => pc[o] # "new"
    /\ pc' = [pc EXCEPT ![m] = "arrived"]
    /\ \E message_data \in FormData(m) :
          msgs' = [msgs EXCEPT ![m] =
                     [@ EXCEPT !.from_number = parse_incoming_message(message_data).from_number]]
    /\ UNCHANGED <<user_message_locks, locks, users, recVars>>

\* leaving the locked section with the given status after sent replies went
\* out; send_failed tells whether a send_text_message of the turn raised
Leave(m, status, sent, send_failed) ==
    /\ pc' = [pc EXCEPT ![m] = "done"]
    /\ msgs' = [msgs EXCEPT ![m] =
                  [@ EXCEPT !.status = status, !.replies = @ + sent,
                            !.send_failed = send_failed,
                            !.released = IF exit_releases(status) THEN @ + 1 ELSE @,
                            !.touched_store = TRUE, !.user = NoUser, !.result = NoResult]]
    /\ locks' = IF exit_releases(status) THEN [locks EXCEPT ![msgs[m].lock] = FALSE]
                ELSE locks
    /\ UNCHANGED <<user_message_locks, recVars>>

\* "except Exception": the apology is sent (the send may fail too), then
\* HTTPException is raised out of the locked section
Except(m, send_failed) ==
    \E delivered \in BOOLEAN :
       Leave(m, "error", IF delivered THEN 1 ELSE 0, send_failed \/ ~delivered)

\* the busy check, the creation of the lock and its acquisition: no await
\* separates them when the sender is not busy.  On the busy branch the notice
\* is sent (the send may fail) and the handler returns.
Enter(m) ==
    /\ pc[m] \in {"arrived", "waiting"}
    /\ IF pc[m] = "arrived" /\ is_busy(user_message_locks, locks, lock_key(msgs[m]))
       THEN /\ pc' = [pc EXCEPT ![m] = "done"]
            /\ \E delivered \in BOOLEAN :
                  msgs' = [msgs EXCEPT ![m] =
                             [@ EXCEPT !.status = "busy",
                                       !.turn_seen = OtherInTurn(m),
                                       !.replies = IF delivered THEN 1 ELSE 0,
                                       !.send_failed = ~delivered]]
            /\ UNCHANGED <<user_message_locks, locks>>
       ELSE LET key == lock_key(msgs[m])
                absent == key \notin DOMAIN user_message_locks
                table == IF absent THEN user_message_locks @@ (key :> Len(locks) + 1)
                         ELSE user_message_locks
                created == IF absent THEN Append(locks, FALSE) ELSE locks
            IN  /\ user_message_locks' = table
                /\ IF created[table[key]]
                   THEN /\ locks' = created
                        /\ pc' = [pc EXCEPT ![m] = "waiting"]
                        /\ UNCHANGED msgs
                   ELSE /\ locks' = [created EXCEPT ![table[key]] = TRUE]
                        /\ pc' = [pc EXCEPT ![m] = "locked"]
                        /\ msgs' = [msgs EXCEPT ![m] =
                                      [@ EXCEPT !.lock = table[key],
                                                !.turn_seen = OtherInTurn(m)]]
    /\ UNCHANGED <<users, recVars>>

\* after get_user: the branch on parsed_message["type"]; a type that is
\* neither "text" nor "image" falls through to return {"status": "success"}
Dispatch(m, user, type) ==
    IF type \in {"text", "image"}
    THEN /\ pc' = [pc EXCEPT ![m] = IF type = "text" THEN "classify" ELSE "analyze"]
         /\ msgs' = [msgs EXCEPT ![m] = [@ EXCEPT !.user = user, !.touched_store = TRUE]]
         /\ UNCHANGED <<user_message_locks, locks, recVars>>
    ELSE Leave(m, "success", 0, FALSE)

\* get_user: find_one by phone number, else insert_one and find_one by _id
GetUser(m) ==
    /\ pc[m] = "locked"
    /\ \E store_ok \in BOOLEAN, message_data \in FormData(m) :
          /\ parse_incoming_message(message_data).from_number = msgs[m].from_number
          /\ IF ~store_ok THEN Except(m, FALSE) /\ UNCHANGED users
             ELSE IF find_one(users, "phone_number", msgs[m].from_number) # NoUser
             THEN /\ Dispatch(m, find_one(users, "phone_number", msgs[m].from_number),
                              parse_incoming_message(message_data).type)
                  /\ UNCHANGED users
             ELSE /\ users' = Append(users, NewUser(Timestamp, msgs[m].from_number))
                  /\ Dispatch(m, NewUser(Timestamp, msgs[m].from_number),
                              parse_incoming_message(message_data).type)

\* process_classified_message returned result; wrote tells whether the call
\* committed an inventory write
Returned(m, result, wrote) ==
    /\ msgs' = [msgs EXCEPT ![m] = [@ EXCEPT !.result = result, !.wrote = wrote]]
    /\ UNCHANGED <<user_message_locks, locks, recVars>>

\* next_pc is "history" on the text branch and "send" for analyze_image, which
\* hands the result to the send
Processed(m, result, next_pc) ==
    /\ pc' = [pc EXCEPT ![m] = next_pc]
    /\ Returned(m, result, FALSE)

\* the returned dict; calls counts the calls of the language model that
\* process_classified_message made (normalizer calls included)
Result(response, conversation_history, calls) ==
    [response |-> response, conversation_history |-> conversation_history, calls |-> calls]

\* mutant: the branch on the empty inventory is dropped
get_inventory_unchecked(inventory, provider_ok) ==
    IF provider_ok THEN Result("inventory", <<>>, 1 + Len(inventory))
    ELSE Result("inventory_error", <<>>, 1)

\* get_inventory: response and calls (the history is filled in by the caller).
\* "if not inventory" answers at once; else the message is analyzed and every
\* stored name normalized, and a failing call is answered by the except clause
get_inventory(inventory, provider_ok) ==
    IF inventory = <<>> THEN Result("empty", <<>>, 0)
    ELSE IF provider_ok THEN Result("inventory", <<>>, 1 + Len(inventory))
    ELSE Result("inventory_error", <<>>, 1)

\* the update_inventory and remove_inventory branches after the loop left st;
\* an exception of the write is answered inside the branch
ProcessInventory(m, c, st, store_ok) ==
    \E writes \in {IF c.action = "remove_inventory" THEN remove_writes(st.outcomes)
                   ELSE update_writes(st.has_errors)} :
       /\ users' = IF writes /\ store_ok
                   THEN update_one(users, msgs[m].user.user_id, "ingredients",
                                   DictValues(st.current_items))
                   ELSE users
       /\ Returned(m, Result(IF writes /\ ~store_ok THEN "error" ELSE "report",
                             msgs[m].user.conversation_history,
                             Len(msgs[m].user.ingredients) + Len(c.items)),
                   writes /\ store_ok)

\* process_classified_message, by classification["action"], on the user read
\* by get_user; the normalizer may fail on any stored or classified item
ProcessClassified(m, c, next_pc) ==
    IF c.action \in {"update_inventory", "remove_inventory"}
    THEN /\ pc' = [pc EXCEPT ![m] = next_pc]
         /\ \E st \in {reconcile(c.action, msgs[m].user.ingredients, c.items,
                                  failed_stored, failed_items) :
                           failed_stored \in [1..Len(msgs[m].user.ingredients) -> BOOLEAN],
                           failed_items \in [1..Len(c.items) -> BOOLEAN]},
               store_ok \in BOOLEAN :
                  ProcessInventory(m, c, st, store_ok)
    ELSE \E provider_ok \in BOOLEAN :
            /\ UNCHANGED users
            /\ IF c.action = "get_inventory"
               THEN \E r \in {get_inventory(msgs[m].user.ingredients, provider_ok)} :
                       Processed(m, Result(r.response, msgs[m].user.conversation_history,
                                           r.calls), next_pc)
               ELSE IF c.action = "get_recipes"
               THEN Processed(m, Result("recipes",
                                        IF provider_ok
                                        THEN Exchange(msgs[m].user.conversation_history, m)
                                        ELSE msgs[m].user.conversation_history, 1), next_pc)
               ELSE IF provider_ok
               THEN Processed(m, Result("chat",
                                        Exchange(msgs[m].user.conversation_history, m), 1),
                              next_pc)
               ELSE Except(m, FALSE)

\* text branch: classify_message (a provider failure yields
\* general_conversation), then process_classified_message
Process(m) ==
    /\ pc[m] = "classify"
    /\ \E i \in DOMAIN Classifications : ProcessClassified(m, Classifications[i], "history")

\* image branch: analyze_image; the download or the vision call may fail, which
\* raises HTTPException, else the items read off the image are classified and
\* processed
Analyze(m) ==
    /\ pc[m] = "analyze"
    /\ \E provider_ok \in BOOLEAN :
          IF ~provider_ok THEN Except(m, FALSE) /\ UNCHANGED users
          ELSE \E i \in DOMAIN Classifications :
                  ProcessClassified(m, Classifications[i], "send")

\* mutant: the $set of the history write replaces the inventory as well
History_clearing_inventory(m) ==
    /\ pc[m] = "history"
    /\ \E store_ok \in BOOLEAN :
          IF ~store_ok THEN Except(m, FALSE) /\ UNCHANGED users
          ELSE /\ users' = update_one(update_one(users, msgs[m].user.user_id,
                                                 "conversation_history",
                                                 msgs[m].result.conversation_history),
                                      msgs[m].user.user_id, "ingredients", <<>>)
               /\ pc' = [pc EXCEPT ![m] = "send"]
               /\ UNCHANGED <<user_message_locks, locks, msgs, recVars>>

\* users_collection.update_one of conversation_history (text branch)
History(m) ==
    /\ pc[m] = "history"
    /\ \E store_ok \in BOOLEAN :
          IF ~store_ok THEN Except(m, FALSE) /\ UNCHANGED users
          ELSE /\ users' = update_one(users, msgs[m].user.user_id, "conversation_history",
                                      msgs[m].result.conversation_history)
               /\ pc' = [pc EXCEPT ![m] = "send"]
               /\ UNCHANGED <<user_message_locks, locks, msgs, recVars>>

\* send_text_message of the result; a failed send raises into "except Exception"
Send(m) ==
    /\ pc[m] = "send"
    /\ \E delivered \in BOOLEAN :
          IF delivered THEN Leave(m, "success", 1, FALSE) ELSE Except(m, TRUE)
    /\ UNCHANGED users

\* the steps of a turn once the lock is held
Turn(m) == GetUser(m) \/ Process(m) \/ Analyze(m) \/ History(m) \/ Send(m)

Next == \E m \in Sids : Arrive(m) \/ Enter(m) \/ Turn(m)

Spec == Init /\ [][Next]_vars

\* every awaited external call returns and the event loop resumes a handler
\* whose call has returned
FairSpec == Spec /\ WF_vars(\E m \in Sids : Turn(m))

\* the reconciliation turns alone: no webhook call is in flight
RecWebInit ==
    /\ RecInit
    /\ user_message_locks = <<>>
    /\ locks = <<>>
    /\ pc = <<>>
    /\ msgs = <<>>
    /\ users = <<>>

SpecRec == RecWebInit /\ [][RecNext]_vars


(***************************************************************************)
(* Properties of the webhook (checked under Spec and FairSpec)             *)
(***************************************************************************)
Finished(m) == pc[m] = "done"

\* the message went through the locked section (it acquired a lock)
Entered(m) == msgs[m].lock # 0

SameSender(m, o) == m # o /\ msgs[m].from_number = msgs[o].from_number

\* C1: in every reachable state at most one message per sender is inside the
\* locked section, also when the sender's first messages race for the creation
\* of the lock: the lock table holds one lock per sender, no lock object is ever
\* replaced, and the message inside the section holds its sender's lock.
C1_OneTurnPerUser ==
    /\ \A m \in Sids, o \in Sids : (InTurn(m) /\ InTurn(o)) => ~SameSender(m, o)
    /\ DOMAIN user_message_locks \subseteq Phones
    /\ Len(locks) = Cardinality(DOMAIN user_message_locks)
    /\ \A m \in Sids :
          InTurn(m) => /\ msgs[m].from_number \in DOMAIN user_message_locks
                       /\ msgs[m].lock = user_message_locks[msgs[m].from_number]
                       /\ locks[msgs[m].lock]

\* the first two messages of a sender who has no user document yet: one is in
\* the locked section, the other has arrived and was turned away
C1_Witness ==
    \E m \in Sids, o \in Sids :
       /\ SameSender(m, o)
       /\ InTurn(m)
       /\ Finished(o) /\ ~Entered(o)
       /\ find_one(users, "phone_number", msgs[m].from_number) = NoUser

\* turns of two different senders are in flight at the same time
TwoUsersInFlight ==
    \E m \in Sids, o \in Sids :
       InTurn(m) /\ InTurn(o) /\ msgs[m].from_number # msgs[o].from_number

\* C2: a message whose busy check finds a turn of its sender in progress takes
\* the busy branch at once: no message ever waits for a lock, and a message
\* turned away has acquired nothing and has not touched the store; a message
\* whose check finds no turn of its sender in progress is never turned away
\* and goes through the locked section.
C2_BusyRejectedAtOnce ==
    \A m \in Sids :
       /\ pc[m] # "waiting"
       /\ msgs[m].status = "busy"
             => /\ msgs[m].turn_seen
                /\ ~Entered(m) /\ msgs[m].released = 0 /\ ~msgs[m].touched_store
       /\ (pc[m] \notin {"new", "arrived"} /\ msgs[m].status # "busy")
             => ~msgs[m].turn_seen /\ Entered(m)

\* a message is turned away while the turn of the same sender is about to
\* write the conversation history
C2_Witness ==
    \E m \in Sids, o \in Sids :
       /\ SameSender(m, o)
       /\ pc[m] = "history"
       /\ Finished(o) /\ msgs[o].status = "busy"

\* two messages of one sender, one after the other: both were processed
SequentialBothProcessed ==
    \E m \in Sids, o \in Sids :
       /\ SameSender(m, o)
       /\ Finished(m) /\ msgs[m].status = "success" /\ msgs[m].replies = 1
       /\ Finished(o) /\ msgs[o].status = "success" /\ msgs[o].replies = 1

\* a lock is held exactly while a message of its sender is in the section
HeldByTurn ==
    \A p \in DOMAIN user_message_locks :
       locks[user_message_locks[p]]
          <=> \E m \in Sids : InTurn(m) /\ msgs[m].lock = user_message_locks[p]

ReleasedOnce ==
    \A m \in Sids :
       /\ msgs[m].released <= 1
       /\ (Finished(m) /\ Entered(m)) => msgs[m].released = 1
       /\ InTurn(m) => msgs[m].released = 0

\* C3: a turn that acquired its sender's lock releases it exactly once however
\* it ends; every turn that is resumed after each awaited call ends, and a
\* busy sender eventually becomes free again.
C3_LockReleasedOnEveryExit ==
    /\ [](ReleasedOnce /\ HeldByTurn)
    /\ \A m \in Sids : InTurn(m) ~> (Finished(m) /\ msgs[m].released = 1)
    /\ \A p \in Phones :
          is_busy(user_message_locks, locks, p) ~> ~is_busy(user_message_locks, locks, p)

\* after a failed turn of a sender, the next message of that sender is inside
\* the locked section
C3_Witness ==
    \E m \in Sids, o \in Sids :
       /\ SameSender(m, o)
       /\ Finished(m) /\ msgs[m].status = "error" /\ msgs[m].released = 1
       /\ InTurn(o)

\* C4: every message that went through the locked section and saw none of its
\* sends fail has been answered by exactly one reply when the handler returns.
C4_ExactlyOneReply ==
    \A m \in Sids :
       (Finished(m) /\ Entered(m) /\ ~msgs[m].send_failed) => msgs[m].replies = 1

(***************************************************************************)
(* Sequences of reconciliation turns of one user, from the empty           *)
(* inventory: each step is one whole update_inventory or remove_inventory  *)
(* branch of process_classified_message (build, loop, write).              *)
(***************************************************************************)
\* bound: the number of turns of a sequence
MaxTurns == 2

Text_neg5 == <<"-", "5">>

\* amounts of the items of a turn; the signed numeral is a numeral that
\* _parse_amount_unit accepts like any other
SeqAmounts(action) ==
    IF action = "remove_inventory" THEN {Text_3, AllText, Text_neg5}
    ELSE {Text_3, Text_500g, Text_neg5}

\* the item lists of a classification
SeqItemLists(action) ==
    UNION {[1..n -> [name : ItemNames, amount : SeqAmounts(action)]] : n \in 0..MaxItems}

NoTurn ==
    [n |-> 0, action |-> "none", items |-> <<>>, pre |-> <<>>, outcomes |-> <<>>,
     has_errors |-> FALSE, wrote |-> FALSE]

SeqInit ==
    /\ ingredients = <<>>
    /\ turn = NoTurn
    /\ user_message_locks = <<>>
    /\ locks = <<>>
    /\ pc = <<>>
    /\ msgs = <<>>
    /\ users = <<>>

\* the inventory write of the branch: issued or not, and then committed or failed
branch_writes(action, st) ==
    IF action = "remove_inventory" THEN remove_writes(st.outcomes)
    ELSE update_writes(st.has_errors)

\* one whole branch; failed_stored and failed_items tell on which calls the
\* normalizer failed, store_ok whether update_one succeeded
InventoryTurn(action, items, failed_stored, failed_items, store_ok) ==
    /\ turn.n < MaxTurns
    /\ \E st \in {reconcile(action, ingredients, items, failed_stored, failed_items)} :
         /\ ingredients' = IF branch_writes(action, st) /\ store_ok
                           THEN DictValues(st.current_items) ELSE ingredients
         /\ turn' = [n |-> turn.n + 1, action |-> action, items |-> items,
                     pre |-> ingredients, outcomes |-> st.outcomes,
                     has_errors |-> st.has_errors,
                     wrote |-> branch_writes(action, st) /\ store_ok]
    /\ UNCHANGED webVars

TurnOf(action) ==
    \E items \in SeqItemLists(action), store_ok \in BOOLEAN :
        \E failed_stored \in [1..Len(ingredients) -> BOOLEAN],
           failed_items \in [1..Len(items) -> BOOLEAN] :
            InventoryTurn(action, items, failed_stored, failed_items, store_ok)

AddTurn == TurnOf("update_inventory")

RemoveTurn == TurnOf("remove_inventory")

SeqNext == AddTurn \/ RemoveTurn

SpecSeq == SeqInit /\ [][SeqNext]_vars

(***************************************************************************)
(* Properties of turn sequences (checked under SpecSeq)                    *)
(***************************************************************************)
\* the normalized key of a name: the answer of the normalizer
KeyOf(name) == normalize_item_name(name, FALSE)

\* the keys under which a call of the normalizer may file a name
KeysOf(name) == {normalize_item_name(name, failed) : failed \in BOOLEAN}

\* no item of the last batch names the stored entry e, whatever the normalizer did
Unnamed(e) ==
    \A i \in 1..Len(turn.items) : KeysOf(turn.items[i].name) \cap KeysOf(e.name) = {}

AllSucceeded == \A i \in 1..Len(turn.outcomes) : turn.outcomes[i].error = ""

\* C11: after an update_inventory turn in which every item succeeded, every entry
\* of the inventory stored before the turn that no item of the batch names is
\* still stored, with the same name and amount.
C11_UnnamedEntriesKept ==
    (turn.action = "update_inventory" /\ Len(turn.items) > 0 /\ AllSucceeded)
        => \A j \in 1..Len(turn.pre) : Unnamed(turn.pre[j]) => Persisted(turn.pre[j])

\* C12: whatever turns were made from the empty inventory, and on whichever calls
\* the normalizer failed, no two entries of the stored inventory have the same
\* normalized key.
C12_UniqueKeys ==
    \A i \in 1..Len(ingredients), j \in 1..Len(ingredients) :
        i # j => KeyOf(ingredients[i].name) # KeyOf(ingredients[j].name)

(***************************************************************************)
(* The unit functions on drawn inputs: each step applies _validate_unit,   *)
(* _convert_unit, or one update_inventory / remove_inventory iteration on  *)
(* a stored quantity and a requested quantity.                             *)
(***************************************************************************)
Unit_g == <<"g">>

Unit_kg == <<"k", "g">>

Unit_piece == <<"p", "i", "e", "c", "e">>

\* unit texts of a classified amount: aliases, their case and plural variants,
\* and texts that are no alias
UnitTexts ==
    { Unit_g, Unit_kg, <<"K", "g">>, <<"g", "r", "a", "m", "s">>, <<"m", "l">>, <<"l">>,
      <<"l", "i", "t", "e", "r", "s">>, Unit_piece, <<"p", "c", "s">>,
      <<"c", "u", "p">>, <<"l", "t", "r">>, <<"k", "g", "s", "s">>, <<"s">>,
      <<"k", "i", "l">> }

\* units of stored amounts: update_inventory stores an entry only with a unit
\* that _validate_unit accepted
StoredUnits == {Unit_g, Unit_kg, <<"m", "l">>, <<"l">>, Unit_piece}

One == <<1, 1>>

\* the amount text "<digit> <unit>"
AmountText(digit, unit) == <<digit, " ">> \o unit

\* the drawn inputs, before a function is applied to them
Drawn(from_unit, to_unit) == [op |-> "none", from_unit |-> from_unit, to_unit |-> to_unit]

UnitsInit ==
    /\ ingredients = <<>>
    /\ \E from_unit \in UnitTexts, to_unit \in UnitTexts : turn = Drawn(from_unit, to_unit)
    /\ user_message_locks = <<>>
    /\ locks = <<>>
    /\ pc = <<>>
    /\ msgs = <<>>
    /\ users = <<>>

Applied(op, result) ==
    /\ turn.op = "none"
    /\ turn' = [op |-> op, from_unit |-> turn.from_unit, to_unit |-> turn.to_unit,
                result |-> result]
    /\ UNCHANGED <<ingredients, webVars>>

Validate == Applied("validate", _validate_unit(turn.from_unit))

Convert == Applied("convert", _convert_unit(One, turn.from_unit, turn.to_unit))

\* one iteration of the loop of the branch on the stored entry Onion "2 <to_unit>"
\* and the item Onion "1 <from_unit>"
LoopStep(action) ==
    /\ turn.to_unit \in StoredUnits
    /\ Applied(action, reconcile(action,
                                 <<Ingredient(Onion, AmountText("2", turn.to_unit))>>,
                                 <<Ingredient(Onion, AmountText("1", turn.from_unit))>>,
                                 <<FALSE>>, <<FALSE>>))

AddStep == LoopStep("update_inventory")

RemoveStep == LoopStep("remove_inventory")

UnitsNext == Validate \/ Convert \/ AddStep \/ RemoveStep

SpecUnits == UnitsInit /\ [][UnitsNext]_vars

(***************************************************************************)
(* Properties of the unit functions (checked under SpecUnits)              *)
(***************************************************************************)
\* the aliases of the table by dimension class
WeightAliases == {_get_unit_conversions[i].unit : i \in 1..8}

VolumeAliases == {_get_unit_conversions[i].unit : i \in 9..14}

CountAliases == {_get_unit_conversions[i].unit : i \in 15..20}

Aliases == WeightAliases \cup VolumeAliases \cup CountAliases

\* the lowercase form of a unit text, and that form with one trailing "s" removed
AliasForms(unit) ==
    LET u == Lower(unit)
    IN  {u} \cup (IF u # <<>> /\ u[Len(u)] = "s" THEN {SubSeq(u, 1, Len(u) - 1)} ELSE {})

\* the dimension class of a unit text; "unknown" if the text is no alias
ClassOfUnit(unit) ==
    IF AliasForms(unit) \cap WeightAliases # {} THEN "weight"
    ELSE IF AliasForms(unit) \cap VolumeAliases # {} THEN "volume"
    ELSE IF AliasForms(unit) \cap CountAliases # {} THEN "count"
    ELSE "unknown"

SameClass(a, b) == ClassOfUnit(a) # "unknown" /\ ClassOfUnit(a) = ClassOfUnit(b)

IsLoopStep == turn.op \in {"update_inventory", "remove_inventory"}

\* the step changed the stored quantity (or removed the entry)
QuantityChanged ==
    DictValues(turn.result.current_items)
        # <<Ingredient(Onion, AmountText("2", turn.to_unit))>>

\* C13: _convert_unit returns no value whenever the two units are of different
\* dimension classes or one of them is unknown, and an update_inventory or
\* remove_inventory iteration changes the stored quantity only when the requested
\* unit and the stored unit are of the same class; otherwise it records an error.
C13_NoCrossClassArithmetic ==
    /\ turn.op = "convert"
          => (turn.result.ok => SameClass(turn.from_unit, turn.to_unit))
    /\ IsLoopStep
          => /\ QuantityChanged => SameClass(turn.from_unit, turn.to_unit)
             /\ ~SameClass(turn.from_unit, turn.to_unit)
                   => turn.result.outcomes[1].error # ""

\* C20: for every unit text that is no alias of the table, _validate_unit fails,
\* and every alias of its suggestion list contains the input or is contained in it.
C20_UnknownUnitRejected ==
    (turn.op = "validate" /\ ClassOfUnit(turn.from_unit) = "unknown")
        => /\ ~turn.result.ok
           /\ \A i \in 1..Len(turn.result.similar) :
                 \/ IsSubstr(turn.result.similar[i], Lower(turn.from_unit))
                 \/ IsSubstr(Lower(turn.from_unit), turn.result.similar[i])

(***************************************************************************)
(* Properties of the webhook turns (checked under Spec)                    *)
(***************************************************************************)
\* the stored document of the user that call m read
StoredUser(m) == find_one(users, "user_id", msgs[m].user.user_id)

\* process_classified_message has returned to call m and its result is held
HasResult(m) == pc[m] \in {"history", "send"}

\* the turn ended with the apology delivered and with no failed send: a store
\* call or a provider call of the turn raised
Apologized(m) == Finished(m) /\ msgs[m].status = "error" /\ ~msgs[m].send_failed

\* C17: a turn in which a store write failed, and which was answered with the
\* apology, has committed no inventory write.
C17_FailedTurnPersistsNothing ==
    \A m \in Sids : Apologized(m) => ~msgs[m].wrote

\* C18: when a turn has been handled up to the reply, the stored conversation
\* history of the user holds an entry for this turn's message, whatever the intent.
C18_HistoryHasTurn ==
    \A m \in Sids :
       (pc[m] = "send"
        /\ msgs[m].result.response \in {"chat", "recipes", "inventory", "empty", "report"})
           => \E i \in 1..Len(StoredUser(m).conversation_history) :
                 StoredUser(m).conversation_history[i].sid = m

GetInventoryReplies == {"empty", "inventory", "inventory_error"}

\* C19: a get_inventory turn of a user whose inventory is empty answers with the
\* fixed "inventory is empty" message, without a call of the language model
\* (analysis, normalizer) and without an inventory write.
C19_EmptyInventoryReply ==
    \A m \in Sids :
       (HasResult(m) /\ msgs[m].result.response \in GetInventoryReplies
        /\ msgs[m].user.ingredients = <<>>)
           => /\ msgs[m].result.response = "empty"
              /\ msgs[m].result.calls = 0
              /\ ~msgs[m].wrote
              /\ StoredUser(m).ingredients = <<>>

\* a get_inventory turn on an empty inventory has returned its reply
C19_Witness ==
    \E m \in Sids :
       /\ HasResult(m) /\ msgs[m].user.ingredients = <<>>
       /\ msgs[m].result.response = "empty"

(***************************************************************************)
(* AIService.classify_message: the validation of the classifier's answer.  *)
(* A JSON value is a node [t, s, kids]: t its Python type after            *)
(* json.loads, s the text of a string, kids the members of an object       *)
(* (key, value) or the elements of an array (key "").                      *)
(***************************************************************************)
JNode(t, s, kids) == [t |-> t, s |-> s, kids |-> kids]

Member(key, value) == [key |-> key, value |-> value]

JStr(s) == JNode("str", s, <<>>)

JNum == JNode("int", "", <<>>)

JList(values) == JNode("list", "", [i \in 1..Len(values) |-> Member("", values[i])])

JDict(members) == JNode("dict", "", members)

\* "key in j" for a dict (a key) and a list (an element equal to the text);
\* a top-level string or null is not among the drawn answers
Contains(j, key) ==
    IF j.t = "dict" THEN \E i \in 1..Len(j.kids) : j.kids[i].key = key
    ELSE \E i \in 1..Len(j.kids) : j.kids[i].value = JStr(key)

\* j[key] of a dict that has the key
Get(j, key) == j.kids[CHOOSE i \in 1..Len(j.kids) : j.kids[i].key = key].value

valid_actions ==
    {"get_recipes", "general_conversation", "update_inventory", "get_inventory",
     "remove_inventory"}

InventoryActions == {"update_inventory", "remove_inventory"}

\* mutant: the action is not checked against valid_actions
is_valid_action_any(action) == TRUE

\* classification["action"] in valid_actions
is_valid_action(action) == action.t = "str" /\ action.s \in valid_actions


\* isinstance(item, dict) and "name" in item and "amount" in item
is_valid_item(item) ==
    item.t = "dict" /\ Contains(item, "name") /\ Contains(item, "amount")

Raised == [raised |-> TRUE, value |-> JNum]

Returns(value) == [raised |-> FALSE, value |-> value]

\* lines 400-407, for an inventory action
validate_items(classification) ==
    IF ~Contains(classification, "items") \/ Get(classification, "items").t # "list"
    THEN Raised
    ELSE IF \E i \in 1..Len(Get(classification, "items").kids) :
               ~is_valid_item(Get(classification, "items").kids[i].value)
    THEN Raised
    ELSE Returns(classification)

\* lines 389-410 on the parsed answer: Raised is a ValueError of the checks or
\* the TypeError of "in" on a number and of ["action"] on a list
validate_classification(classification) ==
    IF classification.t = "int" THEN Raised
    ELSE IF ~Contains(classification, "action") THEN Raised
    ELSE IF classification.t # "dict" THEN Raised
    ELSE IF ~is_valid_action(Get(classification, "action")) THEN Raised
    ELSE IF Get(classification, "action").s \in InventoryActions
    THEN validate_items(classification)
    ELSE Returns(classification)

\* the return of "except Exception"
Fallback == JDict(<<Member("action", JStr("general_conversation"))>>)

\* an answer of the chat completion: call_ok FALSE is an exception of the call,
\* json_ok FALSE a content that json.loads rejects, value the parsed content
Answer(call_ok, json_ok, value) == [call_ok |-> call_ok, json_ok |-> json_ok, value |-> value]

\* every exception of the body is caught by the outer "except Exception"
classify_message(answer) ==
    IF ~answer.call_ok \/ ~answer.json_ok THEN Returns(Fallback)
    ELSE IF validate_classification(answer.value).raised THEN Returns(Fallback)
    ELSE Returns(answer.value)

(***************************************************************************)
(* The reply texts of process_classified_message.  A reply is modelled by  *)
(* its parts and its length in characters (len of the Python string); the  *)
(* texts a provider returns are modelled by their lengths.                 *)
(***************************************************************************)
RECURSIVE SumSeq(_)
SumSeq(s) == IF s = <<>> THEN 0 ELSE Head(s) + SumSeq(Tail(s))

\* len(str(n))
DigitsLen(n) == Len(NatText(n))

\* "if total_length + len(recipe_text) > 1400"
RecipeBudget == 1400

\* "if len(response["response"]) > 1500"
ReplyLimit == 1500

\* len("🍳 Recipe suggestions:\n\n")
RecipeHeaderLen == 23

\* a generated recipe; every text is given by its length
Recipe(name, description, available, needed, cooking_time, difficulty, steps) ==
    [name |-> name, description |-> description, available |-> available,
     needed |-> needed, cooking_time |-> cooking_time, difficulty |-> difficulty,
     steps |-> steps]

\* len("\n    • ".join([""] + items))
BulletsLen(items) == SumSeq([i \in 1..Len(items) |-> 7 + items[i]])

\* len("\n    ".join([f"{i+1}. {step}" ...]))
StepsLen(steps) ==
    IF steps = <<>> THEN 0
    ELSE SumSeq([i \in 1..Len(steps) |-> DigitsLen(i) + 2 + steps[i]]) + 5 * (Len(steps) - 1)

\* len(recipe_text), line by line of the f-string
recipe_text_len(recipe) ==
    (2 + recipe.name + 1) + (2 + recipe.description + 2) + 15
    + (12 + BulletsLen(recipe.available) + 1) + (9 + BulletsLen(recipe.needed) + 2)
    + (10 + recipe.cooking_time + 1) + (14 + recipe.difficulty + 2)
    + (13 + StepsLen(recipe.steps) + 2) + 32

\* the text of one recipe, kept whole
recipe_text(recipe) == [recipe |-> recipe, length |-> recipe_text_len(recipe)]

\* mutant: the budget is not checked
over_budget_never(total_length, length) == FALSE

\* the guard of "break"
over_budget(total_length, length) == total_length + length > RecipeBudget

\* the loop "for recipe in recipes": recipes_to_show when the loop is left
RECURSIVE RecipeLoop(_, _, _, _)
RecipeLoop(recipes, i, total_length, recipes_to_show) ==
    IF i > Len(recipes) THEN recipes_to_show
    ELSE IF over_budget(total_length, recipe_text_len(recipes[i])) THEN recipes_to_show
    ELSE RecipeLoop(recipes, i + 1, total_length + recipe_text_len(recipes[i]),
                    Append(recipes_to_show, recipe_text(recipes[i])))

\* len(f"\n...and {remaining} more recipe{'s' if remaining > 1 else ''} available. Ask for more!")
NoteLen(remaining) == 8 + DigitsLen(remaining) + 12 + (IF remaining > 1 THEN 1 ELSE 0) + 25

\* get_recipes: header, the recipes shown, and the note (remaining = 0: no note)
RecipesReply(recipes, recipes_to_show) ==
    LET remaining == IF Len(recipes_to_show) < Len(recipes)
                     THEN Len(recipes) - Len(recipes_to_show) ELSE 0
    IN  [shown |-> recipes_to_show, remaining |-> remaining,
         length |-> RecipeHeaderLen
                    + SumSeq([i \in 1..Len(recipes_to_show) |-> recipes_to_show[i].length])
                    + (IF remaining > 0 THEN NoteLen(remaining) ELSE 0)]

get_recipes(recipes) == RecipesReply(recipes, RecipeLoop(recipes, 1, RecipeHeaderLen, <<>>))

\* general conversation: response[:1497] + "..." beyond the limit
general_conversation(length) ==
    [shown |-> <<>>, remaining |-> 0,
     length |-> IF length > ReplyLimit THEN 1497 + 3 ELSE length]

\* get_inventory on n stored entries of distinct normalized names, all shown:
\* header, one line "• name (amount)\n" per entry, the total and the date
inventory_listing(entries) ==
    [shown |-> <<>>, remaining |-> 0,
     length |-> IF entries = <<>> THEN 69
                ELSE 27 + SumSeq([i \in 1..Len(entries) |->
                                     Len(entries[i].name) + Len(entries[i].amount) + 6])
                     + 20 + DigitsLen(Len(entries)) + 32]

\* the fixed part of the error text of an outcome
ErrorLen(error) ==
    IF error = ErrNotFound THEN 27
    ELSE IF error = ErrConvert THEN 28
    ELSE IF error = ErrExceeds THEN 41
    ELSE IF error = ErrFormat THEN 21
    ELSE IF error = ErrUnit THEN 15
    ELSE 34

\* remove_inventory: header, one line per outcome, "Remaining items"
remove_summary(st) ==
    [shown |-> <<>>, remaining |-> 0,
     length |-> IF st.outcomes = <<>> THEN 42
                ELSE 51 + SumSeq([i \in 1..Len(st.outcomes) |->
                                     IF st.outcomes[i].error # ""
                                     THEN Len(st.outcomes[i].name)
                                          + ErrorLen(st.outcomes[i].error) + 6
                                     ELSE Len(st.outcomes[i].name)
                                          + Len(st.outcomes[i].amount) + 6])
                     + 18 + DigitsLen(Len(st.current_items))]

\* update_inventory: header, "Items:", one line per outcome, and the total
\* when no item failed
update_summary(st) ==
    [shown |-> <<>>, remaining |-> 0,
     length |-> IF st.outcomes = <<>> THEN 42
                ELSE (IF st.has_errors THEN 52 ELSE 35) + 7
                     + SumSeq([i \in 1..Len(st.outcomes) |->
                                  IF st.outcomes[i].error # ""
                                  THEN Len(st.outcomes[i].name) + Len(st.outcomes[i].amount)
                                       + ErrorLen(st.outcomes[i].error) + 9
                                  ELSE Len(st.outcomes[i].name) + Len(st.outcomes[i].amount)
                                       + Len(st.outcomes[i].added) + 10])
                     + (IF st.has_errors THEN 0
                        ELSE 27 + DigitsLen(Len(st.current_items)))]

(***************************************************************************)
(* Classification and replies on drawn inputs: Init draws the answer of    *)
(* the classifier, the generated recipes, the generated text, the stored   *)
(* inventory or the item batch; each step applies the function to it.      *)
(***************************************************************************)
\* bound: the number of generated recipes
MaxRecipes == 3

\* bound: the number of stored entries of a listed inventory
MaxEntries == 100

QuickRecipe == Recipe(10, 40, <<6, 5>>, <<4>>, 10, 6, <<40, 40, 40>>)

LongRecipe == Recipe(20, 100, <<6, 5, 7>>, <<4, 6>>, 10, 8, <<150, 150, 150, 150, 150>>)

HugeRecipe ==
    Recipe(20, 100, <<6>>, <<>>, 10, 8, <<150, 150, 150, 150, 150, 150, 150, 150, 150, 150>>)

RecipeLists ==
    UNION {[1..n -> {QuickRecipe, LongRecipe, HugeRecipe}] : n \in 0..MaxRecipes}

GeneratedLengths == {0, 10, 1497, 1500, 1501, 4000}

ListedInventories ==
    {[i \in 1..n |-> Ingredient(Onion, Text_3piece)] : n \in {0, 1, 2, MaxEntries}}

JItem == JDict(<<Member("name", JStr("onion")), Member("amount", JStr("3"))>>)

JItemsDrawn ==
    { JStr("onion"), JList(<<>>), JList(<<JItem>>), JList(<<JItem, JStr("onion")>>),
      JList(<<JDict(<<Member("name", JStr("onion"))>>)>>),
      JList(<<JItem, JDict(<<Member("amount", JStr("3"))>>)>>) }

JActionsDrawn ==
    {JStr(a) : a \in valid_actions \cup {"delete_inventory", ""}} \cup {JNum, JList(<<>>)}

\* parsed contents: objects with and without "action" and "items", and values
\* that are no object
JValuesDrawn ==
    {JDict(<<Member("action", a)>>) : a \in JActionsDrawn}
    \cup {JDict(<<Member("action", a), Member("items", items)>>) :
             a \in JActionsDrawn, items \in JItemsDrawn}
    \cup {JDict(<<Member("items", items)>>) : items \in JItemsDrawn}
    \cup {JDict(<<>>), JNum, JList(<<>>), JList(<<JStr("action")>>)}

AnswersDrawn ==
    {Answer(TRUE, TRUE, value) : value \in JValuesDrawn}
    \cup {Answer(FALSE, FALSE, JNum), Answer(TRUE, FALSE, JNum)}

Input(kind, input) == [op |-> "none", kind |-> kind, input |-> input]

ReplyInit ==
    /\ ingredients = <<>>
    /\ \/ \E answer \in AnswersDrawn : turn = Input("classify", answer)
       \/ \E recipes \in RecipeLists : turn = Input("get_recipes", recipes)
       \/ \E length \in GeneratedLengths : turn = Input("general_conversation", length)
       \/ \E entries \in ListedInventories : turn = Input("get_inventory", entries)
       \/ \E action \in InventoryActions, inventory \in StoredInventories :
             \E items \in SeqItemLists(action) :
                turn = Input(action, [inventory |-> inventory, items |-> items])
    /\ user_message_locks = <<>>
    /\ locks = <<>>
    /\ pc = <<>>
    /\ msgs = <<>>
    /\ users = <<>>

Output(kind, result) ==
    /\ turn.op = "none"
    /\ turn.kind = kind
    /\ turn' = [op |-> "done", kind |-> kind, input |-> turn.input, result |-> result]
    /\ UNCHANGED <<ingredients, webVars>>

Classify == Output("classify", classify_message(turn.input))

GetRecipes == Output("get_recipes", get_recipes(turn.input))

General == Output("general_conversation", general_conversation(turn.input))

GetInventory == Output("get_inventory", inventory_listing(turn.input))

Summarize(action) ==
    /\ turn.kind = action
    /\ \E failed_items \in [1..Len(turn.input.items) -> BOOLEAN] :
          \E st \in {reconcile(action, turn.input.inventory, turn.input.items,
                               [i \in 1..Len(turn.input.inventory) |-> FALSE],
                               failed_items)} :
             Output(action, IF action = "remove_inventory" THEN remove_summary(st)
                            ELSE update_summary(st))

UpdateSummary == Summarize("update_inventory")

RemoveSummary == Summarize("remove_inventory")

ReplyNext ==
    Classify \/ GetRecipes \/ General \/ GetInventory \/ UpdateSummary \/ RemoveSummary

SpecReply == ReplyInit /\ [][ReplyNext]_vars

(***************************************************************************)
(* Properties of classify_message and of the replies (under SpecReply)     *)
(***************************************************************************)
\* the function of the kind has been applied to the drawn input
Did(kind) == turn.op = "done" /\ turn.kind = kind

\* the five intents of the dispatch
IntentTags ==
    {"general_conversation", "get_recipes", "get_inventory", "update_inventory",
     "remove_inventory"}

HasMember(value, key) ==
    value.t = "dict" /\ \E i \in 1..Len(value.kids) : value.kids[i].key = key

MemberOf(value, key) ==
    value.kids[CHOOSE i \in 1..Len(value.kids) : value.kids[i].key = key].value

\* the action tag of an object with an action among the five tags, else "none"
TagOf(value) ==
    IF HasMember(value, "action") /\ MemberOf(value, "action").t = "str"
       /\ MemberOf(value, "action").s \in IntentTags
    THEN MemberOf(value, "action").s ELSE "none"

\* the items field is missing, is no list, or holds an item without name or amount
BadItems(value) ==
    \/ ~HasMember(value, "items")
    \/ MemberOf(value, "items").t # "list"
    \/ \E i \in 1..Len(MemberOf(value, "items").kids) :
          \/ ~HasMember(MemberOf(value, "items").kids[i].value, "name")
          \/ ~HasMember(MemberOf(value, "items").kids[i].value, "amount")

\* the cases in which the claim requires general_conversation
NoIntent(answer) ==
    \/ ~answer.call_ok
    \/ ~answer.json_ok
    \/ TagOf(answer.value) = "none"
    \/ TagOf(answer.value) \in {"update_inventory", "remove_inventory"}
          /\ BadItems(answer.value)

\* C14: classify_message never raises; whatever the classifier answered, it
\* returns an intent whose action is one of the five tags, and it returns
\* general_conversation when the call failed, the content is no valid JSON, the
\* action is missing or outside the five tags, or an inventory action has no
\* items list or an item without name or amount.
C14_ClassifyNeverRaises ==
    Did("classify")
        => /\ ~turn.result.raised
           /\ TagOf(turn.result.value) \in IntentTags
           /\ NoIntent(turn.input) => TagOf(turn.result.value) = "general_conversation"

\* an answer with an action outside the five tags, and one with an inventory
\* action whose second item has no name, have been classified
C14_Witness ==
    /\ Did("classify")
    /\ turn.input.call_ok /\ turn.input.json_ok
    /\ \/ /\ HasMember(turn.input.value, "action")
          /\ MemberOf(turn.input.value, "action") = JStr("delete_inventory")
       \/ /\ TagOf(turn.input.value) = "update_inventory"
          /\ HasMember(turn.input.value, "items")
          /\ MemberOf(turn.input.value, "items").t = "list"
          /\ BadItems(turn.input.value)
    /\ TagOf(turn.result.value) = "general_conversation"

\* C15: the reply of every intent is at most ReplyLimit characters long, whatever
\* the stored inventory and the item batch.
C15_OneCeiling ==
    (turn.op = "done" /\ turn.kind # "classify") => turn.result.length <= ReplyLimit

ShownLen == SumSeq([i \in 1..Len(turn.result.shown) |-> turn.result.shown[i].length])

\* C16: the recipes shown are the first recipes of the generated list, each whole;
\* they fit into the budget and the next recipe would not; the note counts the
\* recipes left out and is absent when none is left out.
C16_RecipesWholePrefix ==
    Did("get_recipes")
        => /\ Len(turn.result.shown) <= Len(turn.input)
           /\ \A i \in 1..Len(turn.result.shown) :
                 /\ turn.result.shown[i].recipe = turn.input[i]
                 /\ turn.result.shown[i].length = recipe_text_len(turn.input[i])
           /\ RecipeHeaderLen + ShownLen <= RecipeBudget
           /\ Len(turn.result.shown) < Len(turn.input)
                 => RecipeHeaderLen + ShownLen
                    + recipe_text_len(turn.input[Len(turn.result.shown) + 1]) > RecipeBudget
           /\ turn.result.remaining = Len(turn.input) - Len(turn.result.shown)
           /\ turn.result.length
                 = RecipeHeaderLen + ShownLen
                   + (IF turn.result.remaining > 0 THEN NoteLen(turn.result.remaining) ELSE 0)

\* some recipes are shown and some are left out
C16_Witness ==
    /\ Did("get_recipes")
    /\ Len(turn.result.shown) > 0
    /\ Len(turn.result.shown) < Len(turn.input)
    /\ turn.result.remaining > 0

(***************************************************************************)
(* The plural suffix of a unit text (checked under SpecUnits)              *)
(***************************************************************************)
\* C25: _validate_unit accepts a unit text if and only if its lowercase form, or
\* that form with exactly one trailing "s" removed, is an alias of the table, and
\* the unit it returns is one of these two forms; _convert_unit gives a value only
\* for two such texts.
C25_SinglePluralSuffix ==
    /\ turn.op = "validate"
          => /\ turn.result.ok <=> AliasForms(turn.from_unit) \cap Aliases # {}
             /\ turn.result.ok => turn.result.unit \in AliasForms(turn.from_unit)
    /\ turn.op = "convert"
          => (turn.result.ok => /\ AliasForms(turn.from_unit) \cap Aliases # {}
                                /\ AliasForms(turn.to_unit) \cap Aliases # {})

(***************************************************************************)
(* The amount functions on drawn inputs: each step applies                 *)
(* _parse_amount_unit to a text, _convert_unit there and back to a value   *)
(* and two units, or the whole update_inventory branch to a stored         *)
(* inventory and an item list.                                             *)
(***************************************************************************)
\* numerals and texts that are no numeral
NumeralTexts ==
    { <<"2">>, <<"0">>, <<"-", "5">>, <<"+", "3">>, <<"2", ".", "5">>, <<".", "5">>,
      <<"2", ".">>, <<"1", ".", "2", ".", "3">>, <<"x">>, <<>> }

SeparatorTexts == { <<>>, <<" ">>, <<" ", " ">> }

\* unit tokens (valid or not) and texts that are no single token of letters
TokenTexts ==
    { <<>>, Unit_kg, <<"K", "g">>, <<"p", "i", "e", "c", "e", "s">>, <<"g", "!">>,
      <<"k", " ", "g">>, <<"5">> }

\* amount texts a classification may carry, with and without surrounding spaces
AmountTexts ==
    {pad \o n \o s \o u \o pad :
        pad \in {<<>>, <<" ">>}, n \in NumeralTexts, s \in SeparatorTexts, u \in TokenTexts}

ConvertValues == { <<0, 1>>, <<1, 1>>, <<5, 2>>, <<1, 3>>, <<0 - 5, 1>> }

ConvertUnits == Aliases \cup UnitTexts

Text_1g == <<"1", "g">>

Text_1Kg == <<"1", " ", "K", "g">>

Text_2555kg == <<"2", ".", "5", "5", "5", " ", "k", "g">>

AddInventories ==
    { <<>>, <<Ingredient(Onion, Text_2kg)>>, <<Ingredient(Onion, Text_3piece)>> }

AddAmounts == {Text_500g, Text_1g, Text_1Kg, Text_3, Text_1l, Text_2555kg}

AddItemLists == UNION {[1..n -> [name : ItemNames, amount : AddAmounts]] : n \in 1..MaxItems}

AmountsInit ==
    /\ ingredients = <<>>
    /\ \/ \E text \in AmountTexts : turn = Input("parse", text)
       \/ \E value \in ConvertValues, a \in ConvertUnits, b \in ConvertUnits :
             turn = Input("convert", [value |-> value, a |-> a, b |-> b])
       \/ \E inventory \in AddInventories, items \in AddItemLists :
             turn = Input("add", [inventory |-> inventory, items |-> items])
    /\ user_message_locks = <<>>
    /\ locks = <<>>
    /\ pc = <<>>
    /\ msgs = <<>>
    /\ users = <<>>

\* convert(convert(v, a, b), b, a)
convert_there_and_back(value, a, b) ==
    Let(_convert_unit(value, a, b),
        LAMBDA there : [there |-> there,
                        back |-> IF there.ok THEN _convert_unit(there.value, b, a)
                                 ELSE [ok |-> FALSE, value |-> NoValue]])

\* the update_inventory branch on a stored inventory: the loop, then the write
\* (when issued and committed); stored is the inventory after the branch
update_inventory(inventory, items, store_ok) ==
    Let(reconcile("update_inventory", inventory, items,
                  [i \in 1..Len(inventory) |-> FALSE], [i \in 1..Len(items) |-> FALSE]),
        LAMBDA st : [outcomes |-> st.outcomes, has_errors |-> st.has_errors,
                     stored |-> IF branch_writes("update_inventory", st) /\ store_ok
                                THEN DictValues(st.current_items) ELSE inventory,
                     wrote |-> branch_writes("update_inventory", st) /\ store_ok])

ParseAmount == Output("parse", _parse_amount_unit(turn.input))

ConvertBack ==
    /\ turn.kind = "convert"
    /\ Output("convert", convert_there_and_back(turn.input.value, turn.input.a, turn.input.b))

AddBranch ==
    /\ turn.kind = "add"
    /\ \E store_ok \in BOOLEAN :
          Output("add", update_inventory(turn.input.inventory, turn.input.items, store_ok))

AmountsNext == ParseAmount \/ ConvertBack \/ AddBranch

SpecAmounts == AmountsInit /\ [][AmountsNext]_vars

(***************************************************************************)
(* Properties of the amount functions (checked under SpecAmounts)          *)
(***************************************************************************)
\* a numeral: an optional sign, then digits with at most one point
IsNumeral(s) ==
    LET body == IF s # <<>> /\ s[1] \in {"+", "-"} THEN Tail(s) ELSE s
    IN  /\ \A i \in 1..Len(body) : IsDigit(body[i]) \/ body[i] = "."
        /\ Cardinality({i \in 1..Len(body) : body[i] = "."}) <= 1
        /\ \E i \in 1..Len(body) : IsDigit(body[i])

\* a unit token: letters
IsUnitToken(s) == s # <<>> /\ AllLetters(s)

AllSpaces(s) == \A i \in 1..Len(s) : IsSpace(s[i])

\* the ways to read s as a numeral, a separator of j spaces and a unit token
Readings(s, gaps) ==
    {r \in [numeral : {SubSeq(s, 1, k) : k \in 1..Len(s)}, gap : gaps,
            unit : {SubSeq(s, k, Len(s)) : k \in 1..Len(s)}] :
        /\ Len(r.numeral) + r.gap + Len(r.unit) = Len(s)
        /\ IsNumeral(r.numeral) /\ IsUnitToken(r.unit)
        /\ AllSpaces(SubSeq(s, Len(r.numeral) + 1, Len(r.numeral) + r.gap))}

\* the three forms, in their order, on the text without its surrounding spaces:
\* the pure numeral, the numeral followed by the unit token, and the two
\* separated by one run of spaces
ParseByForms(s) ==
    IF IsNumeral(s) THEN [ok |-> TRUE, value |-> PyFloat(s).value, unit |-> Unit_piece]
    ELSE IF Readings(s, 0..Len(s)) # {}
    THEN LET r == CHOOSE r \in Readings(s, 0..Len(s)) : TRUE
         IN  [ok |-> TRUE, value |-> PyFloat(r.numeral).value, unit |-> r.unit]
    ELSE [ok |-> FALSE, value |-> NoValue, unit |-> NoText]

\* C21: _parse_amount_unit accepts exactly the three forms: a pure numeral (the
\* unit is "piece"), a numeral directly followed by a unit token, and a numeral
\* and a unit token separated by one space token; the value is the numeral's, the
\* unit the token, and every other text fails with the invalid amount format.
C21_ThreeForms ==
    Did("parse")
        => /\ turn.result.ok <=> ParseByForms(Strip(turn.input)).ok
           /\ turn.result.ok
                 => /\ turn.result.value = ParseByForms(Strip(turn.input)).value
                    /\ turn.result.unit = ParseByForms(Strip(turn.input)).unit

\* the factor of a unit text that is an alias, or an alias with one plural "s"
FactorOf(unit) == UnitFactor(CHOOSE u \in AliasForms(unit) \cap Aliases : TRUE)

\* C22: for every value v and units a, b of the same dimension class,
\* convert(v, a, b) is v * factor(a) / factor(b) and converting that back from b
\* into a gives v again.
C22_ConvertRoundTrip ==
    (Did("convert") /\ SameClass(turn.input.a, turn.input.b))
        => /\ turn.result.there.ok
           /\ turn.result.there.value
                 = RatDivInt(RatMulInt(turn.input.value, FactorOf(turn.input.a)),
                             FactorOf(turn.input.b))
           /\ turn.result.back.ok
           /\ turn.result.back.value = turn.input.value

\* 2.5 kilograms went to 2500 g and back; the plural alias is known as well
C22_Witness ==
    /\ Did("convert")
    /\ turn.input.a = <<"k", "i", "l", "o", "g", "r", "a", "m", "s">>
    /\ turn.input.b = Unit_g
    /\ turn.input.value = <<5, 2>>
    /\ turn.result.there.value = <<2500, 1>>
    /\ turn.result.back.value = <<5, 2>>

\* the entries of an inventory filed under the normalized key
EntriesOfKey(inventory, key) ==
    SelectSeq(inventory, LAMBDA e : KeyOf(e.name) = key)

UnitKnown(unit) == AliasForms(unit) \cap Aliases # {}

\* item i is the only item of the drawn batch with its key
OnlyDrawnItemOfKey(i) ==
    \A j \in 1..Len(turn.input.items) :
        j # i => KeyOf(turn.input.items[j].name) # KeyOf(turn.input.items[i].name)

\* the amount the claim expects for item i: the existing amount plus the delta in
\* the existing unit, or the delta itself under a new key
ExpectedAmount(i) ==
    LET item   == turn.input.items[i]
        before == EntriesOfKey(turn.input.inventory, KeyOf(item.name))
        pnew   == _parse_amount_unit(item.amount)
        pcur   == _parse_amount_unit(before[1].amount)
    IN  IF before = <<>>
        THEN [covered |-> pnew.ok /\ UnitKnown(pnew.unit),
              name |-> item.name, value |-> pnew.value, unit |-> pnew.unit]
        ELSE [covered |-> /\ pnew.ok /\ pcur.ok
                          /\ UnitKnown(pnew.unit) /\ UnitKnown(pcur.unit)
                          /\ SameClass(pnew.unit, pcur.unit),
              name |-> before[1].name,
              value |-> IF pnew.ok /\ pcur.ok /\ SameClass(pnew.unit, pcur.unit)
                        THEN RatAdd(pcur.value,
                                    RatDivInt(RatMulInt(pnew.value, FactorOf(pnew.unit)),
                                              FactorOf(pcur.unit)))
                        ELSE NoValue,
              unit |-> pcur.unit]

\* the entry stored under the key of item i after the branch, parsed
StoredAmount(i) ==
    LET after == EntriesOfKey(turn.result.stored, KeyOf(turn.input.items[i].name))
    IN  IF Len(after) # 1 THEN [ok |-> FALSE, name |-> NoText, value |-> NoValue, unit |-> NoText]
        ELSE Let(_parse_amount_unit(after[1].amount),
                 LAMBDA p : [ok |-> p.ok, name |-> after[1].name, value |-> p.value,
                             unit |-> p.unit])

Covered(i) == turn.result.wrote /\ OnlyDrawnItemOfKey(i) /\ ExpectedAmount(i).covered

\* C24: after an update_inventory turn that commits its write, the
\* amount stored under the key of an item is exactly the existing amount plus the
\* delta converted into the existing entry's unit, in that unit and under the
\* existing name; under a new key it is the delta's own name, amount and unit.
C24_AddSumsExactly ==
    Did("add") => \A i \in 1..Len(turn.input.items) :
        Covered(i) => /\ StoredAmount(i).ok
                      /\ StoredAmount(i).name = ExpectedAmount(i).name
                      /\ StoredAmount(i).unit = ExpectedAmount(i).unit
                      /\ StoredAmount(i).value = ExpectedAmount(i).value

(***************************************************************************)
(* Error outcomes of a remove_inventory turn (checked under SpecRec)       *)
(***************************************************************************)
\* item i matched a stored entry, both amounts parsed, their units differ and
\* _convert_unit gave no value for the requested amount
ConversionFailed(i) == Quantities(i).converted /\ ~Quantities(i).ok

\* no later item of the batch names the key of item i
LastItemOfKey(i) == \A j \in ItemIndexes : j > i => turn.keys[j] # turn.keys[i]

\* C23: in a remove_inventory turn, an item whose requested amount cannot be
\* converted into the unit of the stored entry gets an error outcome and leaves
\* the entry as it was (present, same name and amount); the loop goes on with the
\* next item, and the entry is in the inventory that the turn writes unless a
\* later item of the batch changed it.
C23_ConversionFailureKeepsEntry ==
    IsRemove
        => /\ Len(Outcomes) = Len(turn.items)
           /\ \A i \in ItemIndexes :
                 ConversionFailed(i)
                     => /\ Outcomes[i].error = ErrConvert
                        /\ turn.before[i] # NoEntry
                        /\ turn.after[i] = turn.before[i]
                        /\ (Done /\ turn.wrote /\ LastItemOfKey(i)) => Persisted(turn.before[i])

\* a finished remove batch whose first item failed on the conversion and whose
\* second item, processed after it, was applied to another entry
C23_Witness ==
    /\ Done /\ IsRemove /\ turn.wrote
    /\ Len(turn.items) = 2
    /\ ConversionFailed(1)
    /\ Succeeded(2) /\ turn.keys[2] # turn.keys[1]
    /\ turn.after[2] # turn.before[2]
    /\ Persisted(turn.before[1])

\* C27: in a remove_inventory turn, every item whose outcome carries an error (not
\* found, conversion failure, over-removal, invalid amount format) leaves the entry
\* it names unchanged: an entry is deleted or reduced only by an item whose
\* outcome is a success.
C27_RemoveErrorsKeepEntry ==
    IsRemove
        => \A i \in ItemIndexes : Failed(i) => turn.after[i] = turn.before[i]

(***************************************************************************)
(* Stored amounts over turn sequences (checked under SpecSeq)              *)
(***************************************************************************)
\* the parse of the amount of a stored entry
ParsedAmount(e) == _parse_amount_unit(e.amount)

\* the entries of an inventory with the name of e
SameName(inventory, e) == SelectSeq(inventory, LAMBDA x : x.name = e.name)

\* the pairs <<p, e>> of an entry stored before the last turn and the entry of
\* the same name stored after it, for names that are stored once
KeptEntries ==
    {pe \in {<<turn.pre[j], ingredients[i]>> :
                 j \in 1..Len(turn.pre), i \in 1..Len(ingredients)} :
        /\ pe[1].name = pe[2].name
        /\ Len(SameName(turn.pre, pe[1])) = 1
        /\ Len(SameName(ingredients, pe[2])) = 1}

\* C26: after any sequence of update_inventory and remove_inventory turns from
\* the empty inventory, signed numerals among the amounts, every stored amount is
\* strictly positive; a remove_inventory turn never increases the amount of an
\* entry and an update_inventory turn never decreases it.
C26_StoredAmountsPositive ==
    /\ \A i \in 1..Len(ingredients) :
          ParsedAmount(ingredients[i]).ok /\ ParsedAmount(ingredients[i]).value[1] > 0
    /\ \A pe \in KeptEntries :
          /\ turn.action = "remove_inventory"
                => ~RatGt(ParsedAmount(pe[2]).value, ParsedAmount(pe[1]).value)
          /\ turn.action = "update_inventory"
                => ~RatLt(ParsedAmount(pe[2]).value, ParsedAmount(pe[1]).value)

\* the unit of the amount of a stored entry
StoredUnit(e) == ParsedAmount(e).unit

Phone_C == <<"+", "4", "4", "4", "1", "2", "3", "4">>

Senders == {Phone_A, Phone_B, Phone_C}

\* strftime("%Y%m%d%H%M%S") at two consecutive seconds
Timestamps == <<"20240101120000", "20240101120001">>

\* bound: the number of store calls of a run
MaxStoreCalls == 6

NoCall == [n |-> 0, clock |-> 1, op |-> "none", phone |-> NoText, before |-> <<>>]

UsersInit ==
    /\ ingredients = <<>>
    /\ turn = NoCall
    /\ user_message_locks = <<>>
    /\ locks = <<>>
    /\ pc = [p \in Senders |-> "idle"]
    /\ msgs = [p \in Senders |-> NoUser]
    /\ users = <<>>

\* get_user(phone_number) at the second timestamp: the stored user of the
\* number, or a new user that is inserted
get_user(docs, phone_number, timestamp) ==
    IF find_one(docs, "phone_number", phone_number) # NoUser
    THEN [users |-> docs, user |-> find_one(docs, "phone_number", phone_number)]
    ELSE [users |-> Append(docs, NewUser(timestamp, phone_number)),
          user |-> NewUser(timestamp, phone_number)]

StoreCall(op, phone, clock) ==
    /\ turn.n < MaxStoreCalls
    /\ turn' = [n |-> turn.n + 1, clock |-> clock, op |-> op, phone |-> phone,
                before |-> users]
    /\ UNCHANGED <<ingredients, user_message_locks, locks>>

\* user = await get_user(phone_number), at the current second or a later one
UserGet(phone) ==
    /\ pc[phone] = "idle"
    /\ \E clock \in turn.clock..Len(Timestamps) :
          \E r \in {get_user(users, phone, Timestamps[clock])} :
             /\ users' = r.users
             /\ msgs' = [msgs EXCEPT ![phone] = r.user]
             /\ StoreCall("get_user", phone, clock)
    /\ pc' = [pc EXCEPT ![phone] = "process"]

\* process_classified_message: an update_inventory turn writes the inventory
\* under the user_id of the user read by get_user; other turns write nothing
UserProcess(phone) ==
    /\ pc[phone] = "process"
    /\ \/ /\ users' = update_one(users, msgs[phone].user_id, "ingredients",
                                 update_inventory(msgs[phone].ingredients,
                                                  <<Ingredient(Onion, Text_3)>>, TRUE).stored)
          /\ StoreCall("inventory", phone, turn.clock)
       \/ /\ UNCHANGED <<users, turn, ingredients, user_message_locks, locks>>
    /\ pc' = [pc EXCEPT ![phone] = "history"]
    /\ UNCHANGED msgs

\* the update_one of conversation_history that ends the text branch
UserHistory(phone) ==
    /\ pc[phone] = "history"
    /\ users' = update_one(users, msgs[phone].user_id, "conversation_history",
                           Exchange(msgs[phone].conversation_history, turn.n))
    /\ StoreCall("history", phone, turn.clock)
    /\ pc' = [pc EXCEPT ![phone] = "idle"]
    /\ msgs' = [msgs EXCEPT ![phone] = NoUser]

UsersNext == \E phone \in Senders : UserGet(phone) \/ UserProcess(phone) \/ UserHistory(phone)

SpecUsers == UsersInit /\ [][UsersNext]_vars

(***************************************************************************)
(* Properties of the users collection (checked under SpecUsers)            *)
(***************************************************************************)
IsWrite == turn.op \in {"inventory", "history"}

\* C28: a store write of a turn changes no document of a user with another phone
\* number than the sender's, a turn holds the user of its own sender, and no two
\* stored users have the same user_id.
C28_UsersIsolated ==
    /\ IsWrite
          => \A i \in 1..Len(turn.before) :
                turn.before[i].phone_number # turn.phone => users[i] = turn.before[i]
    /\ \A p \in Senders : msgs[p] # NoUser => msgs[p].phone_number = p
    /\ \A i \in 1..Len(users), j \in 1..Len(users) :
          i # j => users[i].user_id # users[j].user_id

(***************************************************************************)
(* The inventory writes of the webhook turns (checked under Spec)          *)
(***************************************************************************)
\* the step changes the stored inventory of some user
InventoryChanges ==
    \E i \in 1..Len(users) : users'[i].ingredients # users[i].ingredients

\* the step is the process_classified_message call of an update_inventory or
\* remove_inventory turn that committed its inventory write
InventoryTurnWrites ==
    \E m \in Sids : /\ pc[m] \in {"classify", "analyze"}
                    /\ msgs'[m].result.response = "report"
                    /\ msgs'[m].wrote

\* C29: the stored inventory of a user changes only in the step of an
\* update_inventory or remove_inventory turn that writes it: get_inventory,
\* get_recipes and general_conversation turns, the history write and the busy
\* rejection leave every stored inventory as it is, and a message rejected as
\* busy never reaches the store.
C29_OnlyInventoryTurnsWrite ==
    /\ [][InventoryChanges => InventoryTurnWrites]_vars
    /\ [](\A m \in Sids : msgs[m].status = "busy"
                             => ~msgs[m].wrote /\ ~msgs[m].touched_store)

\* a get_inventory turn answered with the listing of a stored inventory that an
\* earlier turn wrote, and wrote nothing itself
C29_Witness ==
    \E m \in Sids, o \in Sids :
        /\ Finished(o) /\ msgs[o].wrote
        /\ pc[m] = "send" /\ msgs[m].result.response = "inventory"
        /\ ~msgs[m].wrote
        /\ StoredUser(m).ingredients # <<>>
        /\ StoredUser(m).ingredients = msgs[m].user.ingredients

====
